---- MODULE Spec2Model ----
(***************************************************************************)
(* kriptty-mcp: a tool server that exposes a REST API as callable tools.   *)
(* The model follows src/src/config.ts (configuration holder), the client  *)
(* gateway of src/unnamed/part_000 (lines 1-574, the client the handlers   *)
(* import), the handlers of src/src/tools/*.ts and the tool registrations  *)
(* of src/src/index.ts.                                                    *)
(*                                                                         *)
(* JavaScript values are wrapped so that values of different types can be  *)
(* compared: Num(n), Str(s), Bool(b), Null; a property that is undefined   *)
(* is a field that is not in the DOMAIN of the parameter record.           *)
(***************************************************************************)
EXTENDS Integers, Sequences, FiniteSets, TLC

\* ------------------------------------------------------------ JS values

Num(n) == [num |-> n]
Half(n) == [num |-> n, half |-> TRUE]   \* the number n + 1/2, n >= 0
Str(s) == [str |-> s]
Bool(b) == [bool |-> b]
Null == [null |-> TRUE]
Undefined == [undef |-> TRUE]

IsNum(v) == "num" \in DOMAIN v
IsInt(v) == DOMAIN v = {"num"}          \* Number.isInteger(v)
IsStr(v) == DOMAIN v = {"str"}
IsBool(v) == DOMAIN v = {"bool"}

\* params.f : the property, or undefined when the object has no such property
Get(a, f) == IF f \in DOMAIN a THEN a[f] ELSE Undefined

\* JavaScript truthiness ( !v is ~Truthy(v) )
Truthy(v) ==
    /\ v # Undefined
    /\ v # Null
    /\ (IsInt(v) => v.num # 0)
    /\ (IsStr(v) => v.str # "")
    /\ (IsBool(v) => v.bool)

\* `${v}` : the text a template literal substitutes for v
Show(v) ==
    IF IsInt(v) THEN ToString(v.num)
    ELSE IF IsNum(v) THEN ToString(v.num) \o ".5"
    ELSE IF IsStr(v) THEN v.str
    ELSE IF IsBool(v) THEN (IF v.bool THEN "true" ELSE "false")
    ELSE IF v = Null THEN "null"
    ELSE "undefined"

\* JSON.stringify(obj) for a flat object: properties whose value is undefined
\* are dropped, every other property (null included) is kept with its value.
Stringify(obj) == [f \in {g \in DOMAIN obj : obj[g] # Undefined} |-> obj[f]]

\* An object literal {f1: a.f1, f2: a.f2, ...}: every listed key is present,
\* with value undefined when the source property is.
Pick(a, fields) == [f \in fields |-> Get(a, f)]

\* the elements of a sequence
Range(seq) == {seq[i] : i \in 1..Len(seq)}

NoBody == [nobody |-> TRUE]
JsonBody(obj) == [json |-> obj]

\* ------------------------------------------------------------ the tools

Tools == {
    "list_users", "get_user", "create_user", "update_user_email",
    "update_user_name", "update_user_password", "update_user_admin",
    "update_user_role", "list_roles",
    "list_routine_parameters", "list_routines", "get_routine",
    "create_routine", "update_routine", "run_routine",
    "list_exchange_parameters", "list_exchanges", "get_exchange",
    "create_exchange", "update_exchange", "refresh_exchange",
    "list_bot_parameters", "list_bots", "get_bot", "create_bot", "update_bot",
    "start_bot", "stop_bot", "restart_bot", "swap_bot_we",
    "simple_swap_bot_we", "get_bot_status",
    "list_trades", "get_trade", "list_trade_symbols", "get_pnl_stats" }

\* ---- declared parameter schemas (inputSchema of each registerTool)

GridModes == {"recursive", "neat", "static", "clock", "custom"}
BotModes == {"n", "m", "gs", "t", "p"}
Vendors == {"bybit", "binance", "binance_us", "bitget", "okx"}
RiskModes == {"1", "2", "3"}
SortColumns == {"id", "symbol", "side", "qty", "closed_pnl", "order_price",
                "leverage", "created_at"}

\* one declared field: required or optional, nullable or not, and its check
Req(f, chk) == [f |-> f, req |-> TRUE, nullable |-> FALSE, chk |-> chk]
Opt(f, chk) == [f |-> f, req |-> FALSE, nullable |-> FALSE, chk |-> chk]
OptNullable(f, chk) == [f |-> f, req |-> FALSE, nullable |-> TRUE, chk |-> chk]

\* z.number().int().positive()
PosInt == [k |-> "numMin", int |-> TRUE, lo |-> 1]
\* z.number().int()
AnyInt == [k |-> "num", int |-> TRUE]
\* z.number().int().min(lo)
IntMin(lo) == [k |-> "numMin", int |-> TRUE, lo |-> lo]
\* z.number().min(lo)
NumMin(lo) == [k |-> "numMin", int |-> FALSE, lo |-> lo]
\* z.number().int().min(lo).max(hi)
IntRange(lo, hi) == [k |-> "numRange", int |-> TRUE, lo |-> lo, hi |-> hi]
\* z.number().min(lo).max(hi)
NumRange(lo, hi) == [k |-> "numRange", int |-> FALSE, lo |-> lo, hi |-> hi]
AnyStr == [k |-> "str"]                         \* z.string()
StrMin(lo) == [k |-> "strMin", lo |-> lo]       \* z.string().min(lo)
StrMax(hi) == [k |-> "strMax", hi |-> hi]       \* z.string().max(hi)
StrLen(lo, hi) == [k |-> "strLen", lo |-> lo, hi |-> hi]
Enum(vals) == [k |-> "enum", vals |-> vals]     \* z.enum([...])
AnyBool == [k |-> "bool"]                       \* z.boolean()
Uuid == [k |-> "uuid"]                          \* z.string().uuid()
Email == [k |-> "email"]                        \* z.string().email()

UserIdField == {Req("user_id", PosInt)}
IdField == {Req("id", PosInt)}
UuidField == {Req("id", Uuid)}

RoutineActionSchemaReq ==
    { Req("grid_mode", Enum(GridModes)), Req("grid_id", IntMin(0)),
      Req("lm", Enum(BotModes)), Req("lwe", NumRange(0, 11)),
      Req("sm", Enum(BotModes)), Req("swe", NumRange(0, 11)) }

RoutineActionSchemaOpt ==
    { Opt("grid_mode", Enum(GridModes)), Opt("grid_id", IntMin(0)),
      Opt("lm", Enum(BotModes)), Opt("lwe", NumRange(0, 11)),
      Opt("sm", Enum(BotModes)), Opt("swe", NumRange(0, 11)) }

BotOptionSchema ==
    { Opt("leverage", NumRange(1, 125)), Opt("assigned_balance", NumMin(0)),
      Opt("oh_mode", AnyBool), Opt("show_logs", AnyBool),
      Opt("is_on_trend", AnyBool), Opt("is_on_routines", AnyBool) }

Schema(t) ==
    CASE t = "get_user" -> IdField
      [] t = "create_user" ->
            { Req("name", StrMin(1)), Req("email", Email),
              Req("password", StrMin(8)), Req("role", AnyInt),
              Opt("admin", AnyBool) }
      [] t = "update_user_email" -> UserIdField \cup {Req("email", Email)}
      [] t = "update_user_name" -> UserIdField \cup {Req("name", StrMin(1))}
      [] t = "update_user_password" ->
            UserIdField \cup {Req("password", StrMin(8))}
      [] t = "update_user_admin" -> UserIdField \cup {Req("admin", AnyBool)}
      [] t = "update_user_role" -> UserIdField \cup {Req("role", AnyInt)}
      [] t = "get_routine" -> UuidField
      [] t = "create_routine" ->
            UserIdField \cup {Req("name", StrLen(1, 52))}
                \cup RoutineActionSchemaReq
      [] t = "update_routine" ->
            UuidField \cup {Opt("name", StrLen(1, 52))}
                \cup RoutineActionSchemaOpt
      [] t = "run_routine" -> UuidField \cup {Req("exchange_id", PosInt)}
      [] t = "list_exchanges" -> UserIdField
      [] t = "get_exchange" -> IdField
      [] t = "create_exchange" ->
            UserIdField \cup
            { Req("name", StrLen(1, 255)), Req("exchange", Enum(Vendors)),
              Req("risk_mode", Enum(RiskModes)),
              Req("api_key", StrLen(1, 100)), Req("api_secret", StrLen(1, 100)),
              Opt("api_frase", StrMax(250)), Opt("is_testnet", AnyBool) }
      [] t = "update_exchange" ->
            IdField \cup
            { Opt("name", StrLen(1, 255)), Opt("exchange", Enum(Vendors)),
              Opt("risk_mode", Enum(RiskModes)),
              Opt("api_key", StrLen(1, 100)), Opt("api_secret", StrLen(1, 100)),
              Opt("api_frase", StrMax(250)), Opt("is_testnet", AnyBool) }
      [] t = "refresh_exchange" -> IdField
      [] t = "list_bots" ->
            {Opt("user_id", PosInt), Opt("exchange_id", PosInt)}
      [] t = "get_bot" -> IdField
      [] t = "create_bot" ->
            { Req("name", StrLen(1, 255)), Req("exchange_id", PosInt),
              Req("symbol_id", PosInt),
              Req("market_type", Enum({"futures", "spot"})),
              Req("grid_mode", Enum(GridModes)), Opt("grid_id", PosInt),
              Req("lm", Enum(BotModes)), Req("lwe", NumRange(0, 11)),
              Req("sm", Enum(BotModes)), Req("swe", NumRange(0, 11)) }
                \cup BotOptionSchema
      [] t = "update_bot" ->
            IdField \cup
            { Opt("name", StrLen(1, 255)), Opt("symbol_id", PosInt),
              Opt("market_type", Enum({"futures", "spot"})),
              Opt("grid_mode", Enum(GridModes)),
              OptNullable("grid_id", PosInt),
              Opt("lm", Enum(BotModes)), Opt("lwe", NumRange(0, 11)),
              Opt("sm", Enum(BotModes)), Opt("swe", NumRange(0, 11)) }
                \cup BotOptionSchema
      [] t \in {"start_bot", "stop_bot", "restart_bot", "simple_swap_bot_we",
                "get_bot_status", "get_trade"} -> IdField
      [] t = "swap_bot_we" ->
            IdField \cup {Req("new_trend", Enum({"LONG", "SHORT"}))}
      [] t = "list_trades" ->
            { Req("exchange_id", PosInt), Opt("symbol", AnyStr),
              Opt("from_date", AnyStr), Opt("to_date", AnyStr),
              Opt("per_page", IntRange(1, 100)),
              Opt("sort_by", Enum(SortColumns)),
              Opt("sort_order", Enum({"asc", "desc"})) }
      [] t = "list_trade_symbols" -> {Req("exchange_id", PosInt)}
      [] t = "get_pnl_stats" ->
            { Req("exchange_id", PosInt),
              Opt("period", Enum({"daily", "monthly", "yearly"})),
              Opt("month", IntRange(1, 12)), Opt("year", IntRange(2020, 2100)) }
      [] OTHER -> {}

\* the length of a canonical UUID text, 8-4-4-4-12 hexadecimal digits
UuidLen == 36

\* the least whole number that is not below the number v
Ceiling(v) == IF IsInt(v) THEN v.num ELSE v.num + 1

\* Does value v pass the check chk?  A number is whole or a whole number and
\* a half; .int() alone refuses the latter.  A UUID is recognised by its
\* length and an e-mail address is any string.
Passes(chk, v) ==
    CASE chk.k = "num" -> IsNum(v) /\ (chk.int => IsInt(v))
      [] chk.k = "numMin" ->
            IsNum(v) /\ (chk.int => IsInt(v)) /\ v.num >= chk.lo
      [] chk.k = "numRange" ->
            /\ IsNum(v) /\ (chk.int => IsInt(v))
            /\ v.num >= chk.lo /\ Ceiling(v) <= chk.hi
      [] chk.k = "str" -> IsStr(v)
      [] chk.k = "strMin" -> IsStr(v) /\ Len(v.str) >= chk.lo
      [] chk.k = "strMax" -> IsStr(v) /\ Len(v.str) <= chk.hi
      [] chk.k = "strLen" ->
            IsStr(v) /\ Len(v.str) >= chk.lo /\ Len(v.str) <= chk.hi
      [] chk.k = "enum" -> IsStr(v) /\ v.str \in chk.vals
      [] chk.k = "bool" -> IsBool(v)
      [] chk.k = "uuid" -> IsStr(v) /\ Len(v.str) = UuidLen
      [] chk.k = "email" -> IsStr(v)

FieldValid(fs, raw) ==
    LET v == Get(raw, fs.f) IN
    IF v = Undefined THEN ~fs.req
    ELSE IF v = Null THEN fs.nullable
    ELSE Passes(fs.chk, v)

\* The harness checks the call's arguments against the tool's inputSchema
\* before the registered callback runs.
Valid(t, raw) == \A fs \in Schema(t) : FieldValid(fs, raw)

\* .default(false) of create_user.admin and create_exchange.is_testnet
\* (the callbacks repeat it with `?? false`)
Defaults(t) ==
    CASE t = "create_user" -> [admin |-> Bool(FALSE)]
      [] t = "create_exchange" -> [is_testnet |-> Bool(FALSE)]
      [] OTHER -> <<>>

\* The parameter object a registered callback hands to its handler: the
\* declared fields of the validated arguments, defaults filled in.
HandlerParams(t, raw) ==
    LET declared == {fs.f : fs \in Schema(t)}
        d == Defaults(t)
        present == {f \in declared : f \in DOMAIN raw \/ f \in DOMAIN d}
    IN  [f \in present |-> IF f \in DOMAIN raw THEN raw[f] ELSE d[f]]

\* ------------------------------------------------------------ handlers: the request each one builds

\* The entity a handler names when the gateway reports status 404 ("" for a
\* handler whose catch block has no 404 branch).
Entity(t) ==
    CASE t \in {"get_user", "update_user_email", "update_user_name",
                "update_user_password", "update_user_admin",
                "update_user_role"} -> "User"
      [] t \in {"get_routine", "update_routine", "run_routine"} -> "Routine"
      [] t \in {"get_exchange", "update_exchange", "refresh_exchange"} ->
            "Exchange"
      [] t \in {"get_bot", "update_bot", "start_bot", "stop_bot", "restart_bot",
                "swap_bot_we", "simple_swap_bot_we", "get_bot_status"} -> "Bot"
      [] t = "get_trade" -> "Trade"
      [] OTHER -> ""

\* The parameter that carries the id of the addressed entity.
IdParam(t) ==
    IF t \in {"update_user_email", "update_user_name", "update_user_password",
              "update_user_admin", "update_user_role"}
    THEN "user_id" ELSE "id"

\* The words after "Error " in the handler's generic error text.
Doing(t) ==
    CASE t = "list_users" -> "fetching users"
      [] t = "get_user" -> "fetching user"
      [] t = "create_user" -> "creating user"
      [] t = "update_user_email" -> "updating email"
      [] t = "update_user_name" -> "updating name"
      [] t = "update_user_password" -> "updating password"
      [] t = "update_user_admin" -> "updating admin status"
      [] t = "update_user_role" -> "updating role"
      [] t = "list_routine_parameters" -> "fetching routine parameters"
      [] t = "list_routines" -> "fetching routines"
      [] t = "get_routine" -> "fetching routine"
      [] t = "create_routine" -> "creating routine"
      [] t = "update_routine" -> "updating routine"
      [] t = "run_routine" -> "running routine"
      [] t = "list_exchange_parameters" -> "fetching exchange parameters"
      [] t = "list_exchanges" -> "fetching exchanges"
      [] t = "get_exchange" -> "fetching exchange"
      [] t = "create_exchange" -> "creating exchange"
      [] t = "update_exchange" -> "updating exchange"
      [] t = "refresh_exchange" -> "refreshing exchange"
      [] t = "list_bot_parameters" -> "fetching bot parameters"
      [] t = "list_bots" -> "fetching bots"
      [] t = "get_bot" -> "fetching bot"
      [] t = "create_bot" -> "creating bot"
      [] t = "update_bot" -> "updating bot"
      [] t = "start_bot" -> "starting bot"
      [] t = "stop_bot" -> "stopping bot"
      [] t = "restart_bot" -> "restarting bot"
      [] t \in {"swap_bot_we", "simple_swap_bot_we"} ->
            "swapping wallet exposure"
      [] t = "get_bot_status" -> "fetching bot status"
      [] t = "list_trades" -> "fetching trades"
      [] t = "get_trade" -> "fetching trade"
      [] t = "list_trade_symbols" -> "fetching trade symbols"
      [] t = "get_pnl_stats" -> "fetching P&L statistics"
      [] OTHER -> ""

\* URLSearchParams.toString(): the appended pairs as k=v joined by "&"
\* (the values of the model need no percent-encoding).
RECURSIVE QueryString(_)
QueryString(pairs) ==
    IF pairs = <<>> THEN ""
    ELSE pairs[1][1] \o "=" \o pairs[1][2]
         \o (IF Len(pairs) > 1 THEN "&" ELSE "") \o QueryString(Tail(pairs))

\* queryParams.append(k, v) when cond holds
AppendIf(cond, k, v) == IF cond THEN << <<k, Show(v)>> >> ELSE <<>>

Defined(p, f) == Get(p, f) # Undefined

ListBotsQuery(p) ==
    QueryString(AppendIf(Defined(p, "user_id"), "user_id", Get(p, "user_id"))
        \o AppendIf(Defined(p, "exchange_id"), "exchange_id",
                    Get(p, "exchange_id")))

ListTradesQuery(p) ==
    QueryString(<< <<"exchange_id", Show(Get(p, "exchange_id"))>> >>
        \o AppendIf(Truthy(Get(p, "symbol")), "symbol", Get(p, "symbol"))
        \o AppendIf(Truthy(Get(p, "from_date")), "from_date",
                    Get(p, "from_date"))
        \o AppendIf(Truthy(Get(p, "to_date")), "to_date", Get(p, "to_date"))
        \o AppendIf(Defined(p, "per_page"), "per_page", Get(p, "per_page"))
        \o AppendIf(Truthy(Get(p, "sort_by")), "sort_by", Get(p, "sort_by"))
        \o AppendIf(Truthy(Get(p, "sort_order")), "sort_order",
                    Get(p, "sort_order")))

PnlStatsQuery(p) ==
    QueryString(<< <<"exchange_id", Show(Get(p, "exchange_id"))>> >>
        \o AppendIf(Truthy(Get(p, "period")), "period", Get(p, "period"))
        \o AppendIf(Defined(p, "month"), "month", Get(p, "month"))
        \o AppendIf(Defined(p, "year"), "year", Get(p, "year")))

\* The endpoint the client method called by handler t passes to request().
Endpoint(t, p) ==
    LET id == Show(Get(p, IdParam(t))) IN
    CASE t = "list_users" -> "/users"
      [] t = "create_user" -> "/users"
      [] t \in {"get_user", "update_user_email", "update_user_name",
                "update_user_password", "update_user_admin",
                "update_user_role"} -> "/users/" \o id
      [] t = "list_routine_parameters" -> "/routine-parameters"
      [] t \in {"list_routines", "create_routine"} -> "/routines"
      [] t \in {"get_routine", "update_routine"} -> "/routines/" \o id
      [] t = "run_routine" -> "/routines/" \o id \o "/run"
      [] t = "list_exchange_parameters" -> "/exchange-parameters"
      [] t = "list_exchanges" ->
            "/exchanges?user_id=" \o Show(Get(p, "user_id"))
      [] t = "create_exchange" -> "/exchanges"
      [] t \in {"get_exchange", "update_exchange"} -> "/exchanges/" \o id
      [] t = "refresh_exchange" -> "/exchanges/" \o id \o "/refresh"
      [] t = "list_bot_parameters" -> "/bot-parameters"
      [] t = "list_bots" -> "/bots?" \o ListBotsQuery(p)
      [] t = "create_bot" -> "/bots"
      [] t \in {"get_bot", "update_bot"} -> "/bots/" \o id
      [] t = "start_bot" -> "/bots/" \o id \o "/start"
      [] t = "stop_bot" -> "/bots/" \o id \o "/stop"
      [] t = "restart_bot" -> "/bots/" \o id \o "/restart"
      [] t = "swap_bot_we" -> "/bots/" \o id \o "/swap-we"
      [] t = "simple_swap_bot_we" -> "/bots/" \o id \o "/simple-swap-we"
      [] t = "get_bot_status" -> "/bots/" \o id \o "/status"
      [] t = "list_trades" -> "/trades?" \o ListTradesQuery(p)
      [] t = "get_trade" -> "/trades/" \o id
      [] t = "list_trade_symbols" ->
            "/trades/symbols?exchange_id=" \o Show(Get(p, "exchange_id"))
      [] t = "get_pnl_stats" -> "/trades/stats/pnl?" \o PnlStatsQuery(p)

\* options.method of the client method (fetch's default is GET).
Method(t) ==
    CASE t \in {"create_user", "create_routine", "run_routine",
                "create_exchange", "refresh_exchange", "create_bot",
                "start_bot", "stop_bot", "restart_bot", "swap_bot_we",
                "simple_swap_bot_we"} -> "POST"
      [] t \in {"update_user_email", "update_user_name",
                "update_user_password", "update_user_admin",
                "update_user_role", "update_routine", "update_exchange",
                "update_bot"} -> "PATCH"
      [] OTHER -> "GET"

\* an object as a property value
Obj(o) == [obj |-> o]

\* a copy that carries every field, null where the caller gave none
OnlyDefinedOrNull(p, fields) ==
    [f \in fields |-> IF Defined(p, f) THEN p[f] ELSE Null]

\* the properties of p among fields whose value is not undefined:
\*   if (params.f !== undefined) data.f = params.f;   for each f
OnlyDefined(p, fields) == [f \in {g \in fields : Defined(p, g)} |-> p[f]]

RoutineActionFields == {"grid_mode", "grid_id", "lm", "lwe", "sm", "swe"}

\* a body with the six action fields beside user_id and name
CreateRoutineDataFlat(p) ==
    Pick(p, RoutineActionFields \cup {"user_id", "name"})

\* createRoutine: {user_id, name, action: {grid_mode, grid_id, lm, lwe, sm, swe}}
CreateRoutineData(p) ==
    [user_id |-> Get(p, "user_id"), name |-> Get(p, "name"),
     action |-> Obj(Stringify(Pick(p, RoutineActionFields)))]

\* updateRoutine: name when truthy; the action fields that are not undefined,
\* under "action", when there is at least one
UpdateRoutineData(p) ==
    LET named == IF Truthy(Get(p, "name")) THEN [name |-> p.name] ELSE <<>>
        actionUpdates == OnlyDefined(p, RoutineActionFields)
    IN  IF DOMAIN actionUpdates # {}
        THEN [f \in DOMAIN named \cup {"action"} |->
                IF f = "action" THEN Obj(actionUpdates) ELSE named[f]]
        ELSE named

UpdateExchangeFields ==
    {"name", "exchange", "risk_mode", "api_key", "api_secret", "api_frase",
     "is_testnet"}

UpdateExchangeData(p) == OnlyDefined(p, UpdateExchangeFields)

UpdateBotFields ==
    {"name", "symbol_id", "market_type", "grid_mode", "grid_id", "lm", "lwe",
     "sm", "swe", "leverage", "assigned_balance", "oh_mode", "show_logs",
     "is_on_trend", "is_on_routines"}

\* a body of the fields whose value is truthy
UpdateBotDataTruthy(p) ==
    [f \in {g \in UpdateBotFields : Truthy(Get(p, g))} |-> p[f]]

UpdateBotData(p) == OnlyDefined(p, UpdateBotFields)

CreateBotFields == UpdateBotFields \cup {"exchange_id"}

CreateExchangeFields == UpdateExchangeFields \cup {"user_id"}

\* client.runRoutine(params.id): the handler passes no exchange_id, so the
\* client's second parameter is undefined in JSON.stringify({ exchange_id })
RunRoutineData(p) == [exchange_id |-> Undefined]

\* options.body of the client method called by handler t.
RequestBody(t, p) ==
    CASE t = "create_user" ->
            JsonBody(Stringify(Pick(p,
                {"name", "email", "password", "role", "admin"})))
      [] t = "update_user_email" -> JsonBody(Stringify(Pick(p, {"email"})))
      [] t = "update_user_name" -> JsonBody(Stringify(Pick(p, {"name"})))
      [] t = "update_user_password" ->
            JsonBody(Stringify(Pick(p, {"password"})))
      [] t = "update_user_admin" -> JsonBody(Stringify(Pick(p, {"admin"})))
      [] t = "update_user_role" -> JsonBody(Stringify(Pick(p, {"role"})))
      [] t = "create_routine" -> JsonBody(Stringify(CreateRoutineData(p)))
      [] t = "update_routine" -> JsonBody(Stringify(UpdateRoutineData(p)))
      [] t = "run_routine" -> JsonBody(Stringify(RunRoutineData(p)))
      [] t = "create_exchange" ->
            JsonBody(Stringify(Pick(p, CreateExchangeFields)))
      [] t = "update_exchange" -> JsonBody(Stringify(UpdateExchangeData(p)))
      [] t = "create_bot" -> JsonBody(Stringify(Pick(p, CreateBotFields)))
      [] t = "update_bot" -> JsonBody(Stringify(UpdateBotData(p)))
      [] t = "swap_bot_we" -> JsonBody(Stringify(Pick(p, {"new_trend"})))
      [] OTHER -> NoBody

\* ------------------------------------------------------------ configuration holder

Thrown(e) == [k |-> "throw", error |-> e]
Returned(v) == [k |-> "value", value |-> v]

MissingEnvError(name) ==
    [name |-> "Error",
     message |-> "Missing required environment variable: " \o name]

\* a reader that falls back to the empty text for a missing variable
getEnvVarLenient(e, name, required) ==
    LET value == e[name] IN
    Returned(IF Truthy(value) THEN value.str ELSE "")

\* getEnvVar(name, required = true) against the environment e
getEnvVar(e, name, required) ==
    LET value == e[name] IN
    IF required /\ ~Truthy(value) THEN Thrown(MissingEnvError(name))
    ELSE Returned(IF Truthy(value) THEN value.str ELSE "")

\* loadConfig(): apiUrl is read first, then apiToken; url and tok are what
\* the two getEnvVar calls gave
ConfigOf(url, tok) ==
    IF url.k = "throw" THEN url
    ELSE IF tok.k = "throw" THEN tok
    ELSE Returned([apiUrl |-> url.value, apiToken |-> tok.value])

loadConfig(e) ==
    ConfigOf(getEnvVar(e, "KRIPTTY_API_URL", TRUE),
             getEnvVar(e, "KRIPTTY_API_TOKEN", TRUE))

\* a getConfig that hands the loaded configuration on without keeping it
LoadedNotKept(loaded) == [config |-> Null, out |-> loaded]

\* config = loadConfig(): a throw leaves the singleton null
Loaded(loaded) ==
    IF loaded.k = "throw" THEN [config |-> Null, out |-> loaded]
    ELSE [config |-> loaded.value, out |-> loaded]

\* getConfig(): the singleton cfg is loaded when it is still null.  The
\* result is the new value of the singleton and what the call gives back.
getConfig(cfg, e) ==
    IF cfg = Null THEN Loaded(loadConfig(e))
    ELSE [config |-> cfg, out |-> Returned(cfg)]

\* ------------------------------------------------------------ client gateway

\* the URL texts of the model, for String.replace(/\/$/, '')
UrlStems == {"https://api.test", "https://api.test/"}

\* apiUrl.replace(/\/$/, ''): one trailing slash, when there is one, is removed
StripTrailingSlash(u) ==
    IF \E b \in UrlStems : u = b \o "/"
    THEN CHOOSE b \in UrlStems : u = b \o "/"
    ELSE u

\* the constructor's body: got is what getConfig() gave
Constructed(got) ==
    IF got.out.k = "throw" THEN got
    ELSE [config |-> got.config,
          out |-> Returned([baseUrl |-> StripTrailingSlash(got.out.value.apiUrl),
                            token |-> got.out.value.apiToken])]

\* new KripttyApiClient(): reads the configuration singleton
NewClient(cfg, e) == Constructed(getConfig(cfg, e))

\* a getApiClient that keeps a client without address or token when the
\* constructor has thrown
MadeKeptOnThrow(made) ==
    [client |-> IF made.out.k = "throw" THEN [baseUrl |-> "", token |-> ""]
                ELSE made.out.value,
     config |-> made.config, out |-> made.out]

\* client = new KripttyApiClient(): a throw leaves the singleton null
Made(made) ==
    [client |-> IF made.out.k = "throw" THEN Null ELSE made.out.value,
     config |-> made.config, out |-> made.out]

\* a getApiClient that builds a client from a newly read configuration on
\* every call
getApiClientFresh(cl, cfg, e) == Made(NewClient(Null, e))

\* getApiClient(): the singleton cl is constructed when it is still null.
\* The result is the new values of both singletons and what the call gives.
getApiClient(cl, cfg, e) ==
    IF cl = Null THEN Made(NewClient(cfg, e))
    ELSE [client |-> cl, config |-> cfg, out |-> Returned(cl)]

\* a gateway that names the content type only when it sends a body
FetchCallBodyTyped(cl, endpoint, method, body) ==
    [url |-> cl.baseUrl \o endpoint,
     method |-> method,
     headers |-> IF body = NoBody
                 THEN [Authorization |-> "Bearer " \o cl.token,
                       Accept |-> "application/json"]
                 ELSE [Authorization |-> "Bearer " \o cl.token,
                       Accept |-> "application/json",
                       ContentType |-> "application/json"],
     body |-> body]

\* The call request() hands to fetch.
FetchCall(cl, endpoint, method, body) ==
    [url |-> cl.baseUrl \o endpoint,
     method |-> method,
     headers |-> [Authorization |-> "Bearer " \o cl.token,
                  Accept |-> "application/json",
                  ContentType |-> "application/json"],
     body |-> body]

\* class ApiError extends Error
ApiError(status, statusText, message) ==
    [name |-> "ApiError", status |-> status, statusText |-> statusText,
     message |-> IF message # "" THEN message
                 ELSE "API Error: " \o ToString(status) \o " " \o statusText]

IsApiError(e) == e.name = "ApiError"

ApiErrorMessage(status, statusText, errorBody) ==
    "API request failed: " \o ToString(status) \o " " \o statusText
        \o ". " \o errorBody

\* a range that takes 300 for a success
ResponseOkTo300(status) == status >= 200 /\ status <= 300

\* response.ok
ResponseOk(status) == status >= 200 /\ status <= 299

NotJson == [notjson |-> TRUE]

\* response.json(): the decoded body, or the parser's SyntaxError
ResponseJson(body) ==
    IF body.json = NotJson
    THEN Thrown([name |-> "SyntaxError",
                 message |-> "Unexpected token in JSON"])
    ELSE Returned(body.json)

\* request() once fetch has settled with net: a rejection of fetch is thrown
\* on, a response that is not ok becomes an ApiError, an ok response is decoded.
RequestResult(net) ==
    IF net.k = "reject" THEN Thrown(net.error)
    ELSE IF ~ResponseOk(net.status)
    THEN Thrown(ApiError(net.status, net.statusText,
                    ApiErrorMessage(net.status, net.statusText, net.body.text)))
    ELSE ResponseJson(net.body)

\* ------------------------------------------------------------ handlers: what each one returns

TextResult(via, text) == [k |-> "text", via |-> via, text |-> text]
Raised(e) == [k |-> "raised", error |-> e]

\* a legend that names the roles without their numbers
ListRolesTextUnnumbered == "Available Roles:\n- Admin\n- User"

ListRolesText == "Available Roles:\n- Role 1: Admin\n- Role 2: User"

ListBotsLocalError == "Error: Either user_id or exchange_id is required."

NotFoundText(t, p) ==
    Entity(t) \o " with ID " \o Show(Get(p, IdParam(t))) \o " not found."

\* a generic text that names the reason phrase instead of the error's message
GenericErrorTextReason(t, e) == "Error " \o Doing(t) \o ": " \o e.statusText

GenericErrorText(t, e) == "Error " \o Doing(t) \o ": " \o e.message

\* ---- the reports of the trade tools

\* array.join(sep)
RECURSIVE Join(_, _)
Join(lines, sep) ==
    IF lines = <<>> THEN ""
    ELSE IF Len(lines) = 1 THEN lines[1]
    ELSE lines[1] \o sep \o Join(Tail(lines), sep)

\* The API gives a pnl as a decimal text; Dec(n) is the text of n / 100000.
Dec(n) == [dec |-> n]

\* parseFloat of a decimal text: the number, in units of 1/100000
ParseFloat(d) == d.dec

\* k written with four digits
Pad4(k) ==
    (IF k < 10 THEN "000" ELSE IF k < 100 THEN "00"
     ELSE IF k < 1000 THEN "0" ELSE "") \o ToString(k)

\* x.toFixed(4) for x in units of 1/100000: "-" when x < 0, then the
\* magnitude rounded to the nearest 1/10000
ToFixed4(x) ==
    LET m == ((IF x < 0 THEN 0 - x ELSE x) + 5) \div 10 IN
    (IF x < 0 THEN "-" ELSE "")
        \o ToString(m \div 10000) \o "." \o Pad4(m % 10000)

\* a pnl text that marks only the gains above zero with "+"
PnlStrPositive(pnl) == IF pnl > 0 THEN "+" \o ToFixed4(pnl) ELSE ToFixed4(pnl)

\* pnl >= 0 ? `+${pnl.toFixed(4)}` : pnl.toFixed(4)
PnlStr(pnl) == IF pnl >= 0 THEN "+" \o ToFixed4(pnl) ELSE ToFixed4(pnl)

\* trade.closed_pnl ? parseFloat(trade.closed_pnl) : 0
ClosedPnl(trade) ==
    IF trade.closed_pnl = Null THEN 0 ELSE ParseFloat(trade.closed_pnl)

\* `${v || 'N/A'}`
OrNA(v) == IF Truthy(v) THEN Show(v) ELSE "N/A"

\* the line of formatTrade, pnlStr being the text of the trade's pnl
TradeLine(trade, pnlStr) ==
    "- ID: " \o ToString(trade.id) \o " | " \o trade.nice_name \o " | "
        \o trade.side \o " | Qty: " \o OrNA(trade.qty) \o " | PnL: " \o pnlStr
        \o " | " \o trade.created_at

formatTrade(trade) == TradeLine(trade, PnlStr(ClosedPnl(trade)))

\* the text of formatTradeDetailed, pnlStr being the text of the trade's pnl
TradeDetails(trade, pnlStr) ==
    "Trade Details:\n- ID: " \o ToString(trade.id)
        \o "\n- Exchange ID: " \o ToString(trade.exchange_id)
        \o "\n- Symbol: " \o trade.symbol \o " (" \o trade.nice_name \o ")"
        \o "\n- Side: " \o trade.side
        \o "\n- Order Type: " \o trade.order_type
        \o "\n- Exec Type: " \o trade.exec_type
        \o "\n- Quantity: " \o OrNA(trade.qty)
        \o "\n- Order Price: " \o OrNA(trade.order_price)
        \o "\n- Avg Entry Price: " \o OrNA(trade.avg_entry_price)
        \o "\n- Avg Exit Price: " \o OrNA(trade.avg_exit_price)
        \o "\n- Closed Size: " \o OrNA(trade.closed_size)
        \o "\n- Closed PnL: " \o pnlStr
        \o "\n- Leverage: " \o OrNA(trade.leverage) \o "x"
        \o "\n- Fill Count: " \o OrNA(trade.fill_count)
        \o "\n- Order ID: " \o trade.order_id
        \o "\n- Order OID: " \o OrNA(trade.order_oid)
        \o "\n- Created: " \o trade.created_at
        \o "\n- Updated: " \o trade.updated_at

formatTradeDetailed(trade) == TradeDetails(trade, PnlStr(ClosedPnl(trade)))

\* the report of listTrades over the rendered lines of the trades
TradesReport(p, meta, lines) ==
    IF lines = <<>>
    THEN "No trades found for exchange " \o Show(Get(p, "exchange_id"))
            \o (IF Truthy(Get(p, "symbol"))
                THEN " with symbol " \o Show(Get(p, "symbol")) ELSE "")
            \o "."
    ELSE "Trades for Exchange " \o Show(Get(p, "exchange_id"))
            \o " (Page " \o ToString(meta.current_page) \o "/"
            \o ToString(meta.last_page) \o ", Total: "
            \o ToString(meta.total) \o "):\n\n" \o Join(lines, "\n")
            \o "\n\nPagination: Showing " \o ToString(meta.from) \o "-"
            \o ToString(meta.to) \o " of " \o ToString(meta.total)
            \o " trades"

ListTradesReport(p, v) ==
    TradesReport(p, v.meta,
                 [i \in 1..Len(v.data) |-> formatTrade(v.data[i])])

\* ---- the report of getPnlStats

\* The key a record is grouped under: record.date for daily, month name and
\* year for monthly, else String(record.year), else ''.  A key that is the
\* text of a whole number is an index key of the object groupedRecords.
PeriodKey(period, r) ==
    IF period = "daily" /\ Truthy(r.date) THEN [text |-> r.date.str]
    ELSE IF period = "monthly" /\ Truthy(r.month_name)
    THEN [text |-> r.month_name.str \o " " \o Show(r.year)]
    ELSE IF Truthy(r.year) THEN [index |-> r.year.num]
    ELSE [text |-> ""]

KeyText(k) == IF "index" \in DOMAIN k THEN ToString(k.index) ELSE k.text

\* the distinct elements of a sequence, each where it comes first
RECURSIVE FirstSeen(_)
FirstSeen(seq) ==
    IF seq = <<>> THEN <<>>
    ELSE <<seq[1]>> \o
            FirstSeen(SelectSeq(Tail(seq), LAMBDA x : x # seq[1]))

\* whole numbers from the least to the greatest
RECURSIVE Ascending(_)
Ascending(S) ==
    IF S = {} THEN <<>>
    ELSE <<CHOOSE x \in S : \A y \in S : x <= y>>
            \o Ascending(S \ {CHOOSE x \in S : \A y \in S : x <= y})

\* Object.entries(groupedRecords): the index keys in ascending order, then
\* the other keys in the order of their insertion
EntriesOrder(keys) ==
    [i \in 1..Cardinality({k \in Range(keys) : "index" \in DOMAIN k}) |->
        [index |-> Ascending({k.index : k \in
                        {j \in Range(keys) : "index" \in DOMAIN j}})[i]]]
    \o SelectSeq(keys, LAMBDA k : "index" \notin DOMAIN k)

\* a grouping that puts every record under every key
GroupOfAll(period, records, k) == records

\* the records pushed under key k, in the order of the response
GroupOf(period, records, k) ==
    SelectSeq(records, LAMBDA r : PeriodKey(period, r) = k)

RECURSIVE SumOf(_)
SumOf(nums) == IF nums = <<>> THEN 0 ELSE nums[1] + SumOf(Tail(nums))

\* `    ${r.symbol}: ${r.total_trades} trades, ${pnlStr}`
DetailLine(symbol, trades, pnlStr) ==
    "    " \o symbol \o ": " \o ToString(trades) \o " trades, " \o pnlStr

\* `${period}: ${totalTrades} trades, PnL: ${totalPnlStr}\n${symbolsDetail}`
GroupBlock(key, totalTrades, totalPnlStr, details) ==
    key \o ": " \o ToString(totalTrades) \o " trades, PnL: " \o totalPnlStr
        \o "\n" \o Join(details, "\n")

\* the rendering of one entry [period, records] of groupedRecords
FormattedGroup(key, records) ==
    GroupBlock(KeyText(key),
        SumOf([i \in 1..Len(records) |-> records[i].total_trades]),
        PnlStr(SumOf([i \in 1..Len(records) |-> ParseFloat(records[i].pnl)])),
        [i \in 1..Len(records) |->
            DetailLine(records[i].symbol, records[i].total_trades,
                       PnlStr(ParseFloat(records[i].pnl)))])

\* the report of getPnlStats over the rendered groups
StatsReport(p, period, blocks, globalPnlStr) ==
    IF blocks = <<>>
    THEN "No P&L statistics found for exchange "
            \o Show(Get(p, "exchange_id")) \o " with period " \o period
            \o ".\n\nGlobal PnL (All Time): " \o globalPnlStr
    ELSE "P&L Statistics for Exchange " \o Show(Get(p, "exchange_id"))
            \o " (" \o period \o "):\n\n" \o Join(blocks, "\n\n")
            \o "\n\nGlobal PnL (All Time): " \o globalPnlStr

\* a grouping that skips the records without a key
GroupKeysNamed(stats) ==
    SelectSeq(EntriesOrder(FirstSeen([i \in 1..Len(stats.records) |->
                              PeriodKey(stats.period, stats.records[i])])),
              LAMBDA k : KeyText(k) # "")

\* the keys of groupedRecords in the order Object.entries gives them
GroupKeys(stats) ==
    EntriesOrder(FirstSeen([i \in 1..Len(stats.records) |->
                              PeriodKey(stats.period, stats.records[i])]))

FormattedGroups(stats, keys) ==
    [i \in 1..Len(keys) |->
        FormattedGroup(keys[i], GroupOf(stats.period, stats.records, keys[i]))]

PnlStatsReport(p, v) ==
    StatsReport(p, v.data.period, FormattedGroups(v.data, GroupKeys(v.data)),
                PnlStr(ParseFloat(v.data.global_pnl)))

\* ---- the reports of the bot tools

BotModeLabels ==
    [n |-> "Normal", m |-> "Manual", gs |-> "Graceful Stop",
     t |-> "Take Profit Only", p |-> "Panic"]

GridModeLabels ==
    [recursive |-> "Recursive", neat |-> "Neat", static |-> "Static",
     clock |-> "Clock", custom |-> "Custom"]

\* `${labels[key] || key}`
Label(labels, key) == IF key \in DOMAIN labels THEN labels[key] ELSE key

\* bot.exchange ? `${bot.exchange.name} (${bot.exchange.exchange})`
\*              : `ID: ${bot.exchange_id}`
ExchangeInfo(bot) ==
    IF bot.exchange # Undefined
    THEN bot.exchange.obj.name \o " (" \o bot.exchange.obj.exchange \o ")"
    ELSE "ID: " \o ToString(bot.exchange_id)

\* bot.grid ? bot.grid.name : (bot.grid_id ? `ID: ${bot.grid_id}` : 'N/A')
GridInfo(bot) ==
    IF bot.grid # Undefined /\ bot.grid # Null THEN bot.grid.obj.name
    ELSE IF Truthy(bot.grid_id) THEN "ID: " \o Show(bot.grid_id)
    ELSE "N/A"

\* a status that takes a bot with a pid for a running one
BotStatusByPid(bot) ==
    IF bot.pid # Null THEN "RUNNING (PID: " \o Show(bot.pid) \o ")"
    ELSE "STOPPED"

\* bot.is_running ? 'RUNNING (PID: ' + bot.pid + ')' : 'STOPPED'
BotStatus(bot) ==
    IF bot.is_running THEN "RUNNING (PID: " \o Show(bot.pid) \o ")"
    ELSE "STOPPED"

\* the block of formatBot, status being the text of the bot's status
BotBlock(bot, status) ==
    "- ID: " \o ToString(bot.id)
        \o "\n  Name: " \o bot.name
        \o "\n  Status: " \o status
        \o "\n  Exchange: " \o ExchangeInfo(bot)
        \o "\n  Symbol: "
        \o (IF bot.symbol # Undefined THEN bot.symbol.obj.nice_name
            ELSE "ID: " \o ToString(bot.symbol_id))
        \o "\n  Market Type: " \o bot.market_type
        \o "\n  Grid Mode: " \o Label(GridModeLabels, bot.grid_mode)
        \o "\n  Grid: " \o GridInfo(bot)
        \o "\n  Long Mode: " \o Label(BotModeLabels, bot.lm)
        \o " (WE: " \o ToString(bot.lwe) \o ")"
        \o "\n  Short Mode: " \o Label(BotModeLabels, bot.sm)
        \o " (WE: " \o ToString(bot.swe) \o ")"
        \o "\n  Leverage: " \o ToString(bot.leverage) \o "x"
        \o "\n  Created: " \o bot.created_at

formatBot(bot) == BotBlock(bot, BotStatus(bot))

YesNo(b, yes, no) == IF b THEN yes ELSE no

formatBotDetailed(bot) ==
    "Bot Details:\n- ID: " \o ToString(bot.id)
        \o "\n- Name: " \o bot.name
        \o "\n- Status: " \o YesNo(bot.is_running, "RUNNING", "STOPPED")
        \o "\n- PID: " \o OrNA(bot.pid)
        \o "\n- Started At: " \o OrNA(bot.started_at)
        \o "\n- Stopped At: " \o OrNA(bot.stopped_at)
        \o "\n\nConfiguration:\n- Exchange: " \o ExchangeInfo(bot)
        \o "\n- Symbol: "
        \o (IF bot.symbol # Undefined
            THEN bot.symbol.obj.nice_name \o " (" \o bot.symbol.obj.name
                    \o ")"
            ELSE "ID: " \o ToString(bot.symbol_id))
        \o "\n- Market Type: " \o bot.market_type
        \o "\n- Grid Mode: " \o Label(GridModeLabels, bot.grid_mode)
        \o "\n- Grid: " \o GridInfo(bot)
        \o "\n- Leverage: " \o ToString(bot.leverage) \o "x"
        \o "\n- Assigned Balance: "
        \o (IF bot.assigned_balance > 0 THEN ToString(bot.assigned_balance)
            ELSE "No limit")
        \o "\n\nTrading Modes:\n- Long Mode: " \o Label(BotModeLabels, bot.lm)
        \o "\n- Long Wallet Exposure: " \o ToString(bot.lwe)
        \o "\n- Short Mode: " \o Label(BotModeLabels, bot.sm)
        \o "\n- Short Wallet Exposure: " \o ToString(bot.swe)
        \o "\n\nOptions:\n- Order History Mode: "
        \o YesNo(bot.oh_mode, "Enabled", "Disabled")
        \o "\n- Show Logs: " \o YesNo(bot.show_logs, "Yes", "No")
        \o "\n- On Trend: " \o YesNo(bot.is_on_trend, "Yes", "No")
        \o "\n- On Routines: " \o YesNo(bot.is_on_routines, "Yes", "No")
        \o "\n\nMetadata:\n- User ID: " \o ToString(bot.user_id)
        \o "\n- Created: " \o bot.created_at
        \o "\n- Updated: " \o bot.updated_at

\* the text of getBotStatus
BotStatusReport(status) ==
    "Bot Status:\n- ID: " \o ToString(status.id)
        \o "\n- Name: " \o status.name
        \o "\n- Process Running: " \o YesNo(status.is_running, "YES", "NO")
        \o "\n- PID: " \o OrNA(status.pid)
        \o "\n- Started At: " \o OrNA(status.started_at)
        \o "\n- Stopped At: " \o OrNA(status.stopped_at)

\* response.data.filter(b => b.is_running).length
RunningCount(bots) == Cardinality({n \in 1..Len(bots) : bots[n].is_running})

\* the report of listBots over the blocks of the bots
BotsReport(p, total, runningCount, blocks) ==
    IF total = 0
    THEN "No bots found for "
            \o (IF Truthy(Get(p, "user_id"))
                THEN "user " \o Show(Get(p, "user_id"))
                ELSE "exchange " \o Show(Get(p, "exchange_id"))) \o "."
    ELSE "Bots for "
            \o (IF Truthy(Get(p, "user_id"))
                THEN "User " \o Show(Get(p, "user_id"))
                ELSE "Exchange " \o Show(Get(p, "exchange_id")))
            \o " (Total: " \o ToString(total) \o ", Running: "
            \o ToString(runningCount) \o "):\n\n" \o Join(blocks, "\n\n")

ListBotsReport(p, v) ==
    BotsReport(p, Len(v.data), RunningCount(v.data),
               [n \in 1..Len(v.data) |-> formatBot(v.data[n])])

\* ---- the report of getBotParameters

\* Object.entries(record).map(([key, label]) => `  - ${key}: ${label}`)
EntryLines(entries) ==
    Join([i \in 1..Len(entries) |->
            "  - " \o entries[i][1] \o ": " \o entries[i][2]], "\n")

GridsText(grids) ==
    IF Len(grids) > 0
    THEN Join([i \in 1..Len(grids) |->
                "  - ID: " \o ToString(grids[i].id) \o ", Name: "
                    \o grids[i].name \o " (User: "
                    \o ToString(grids[i].user_id) \o ")"], "\n")
    ELSE "  No custom grids available"

\* symbolsGrouped[exchange]: the symbols of one vendor, in input order
SymbolsOf(symbols, exchange) ==
    SelectSeq(symbols, LAMBDA s : s.exchange = exchange)

\* the keys of symbolsGrouped (vendor names) in the order of Object.entries
SymbolVendors(symbols) ==
    FirstSeen([i \in 1..Len(symbols) |-> symbols[i].exchange])

\* `    - ID: ${s.id}, ${s.nice_name}`
SymbolLine(s) == "    - ID: " \o ToString(s.id) \o ", " \o s.nice_name

\* symbols.slice(0, 10)
Slice10(symbols) ==
    SubSeq(symbols, 1, IF Len(symbols) < 10 THEN Len(symbols) ELSE 10)

MoreCountFromTen(n) ==
    IF n >= 10 THEN " ... and " \o ToString(n - 10) \o " more" ELSE ""

\* symbols.length > 10 ? ` ... and ${symbols.length - 10} more` : ''
MoreCount(n) ==
    IF n > 10 THEN " ... and " \o ToString(n - 10) \o " more" ELSE ""

\* `  ${exchange}:\n${symbolList}${moreCount}`
VendorBlock(exchange, lines, moreCount) ==
    "  " \o exchange \o ":\n" \o Join(lines, "\n") \o moreCount

VendorEntry(exchange, symbols) ==
    VendorBlock(exchange,
        [i \in 1..Len(Slice10(symbols)) |-> SymbolLine(Slice10(symbols)[i])],
        MoreCount(Len(symbols)))

SymbolsList(symbols, vendors) ==
    Join([i \in 1..Len(vendors) |->
            VendorEntry(vendors[i], SymbolsOf(symbols, vendors[i]))], "\n")

\* the report of getBotParameters around the list of symbols
ParametersReport(params, symbolsList) ==
    "Bot Parameters:\n\nBot Modes:\n" \o EntryLines(params.bot_modes)
        \o "\n\nGrid Modes:\n" \o EntryLines(params.grid_modes)
        \o "\n\nMarket Types:\n" \o EntryLines(params.market_types)
        \o "\n\nAvailable Grids:\n" \o GridsText(params.grids)
        \o "\n\nAvailable Symbols (by exchange):\n" \o symbolsList
        \o "\n\nRequired Fields: " \o Join(params.fields.required, ", ")
        \o "\nOptional Fields: " \o Join(params.fields.optional, ", ")
        \o "\n\nNotes:\n" \o EntryLines(params.fields.notes)

BotParametersReport(v) ==
    ParametersReport(v.data,
        SymbolsList(v.data.symbols, SymbolVendors(v.data.symbols)))

ListTools ==
    {"list_users", "list_routines", "list_exchanges", "list_bots",
     "list_trades", "list_trade_symbols"}

ActionTools ==
    {"run_routine", "refresh_exchange", "start_bot", "stop_bot",
     "restart_bot", "swap_bot_we", "simple_swap_bot_we"}

\* The heading of the report a handler renders from the decoded response v:
\* its first line and, for one entity, the lines that identify it.  (The
\* further lines of each report print further fields of the same response.)
IdAndName(d) == "\n- ID: " \o ToString(d.id) \o "\n- Name: " \o d.name

ReportHeading(t, p, v) ==
    LET d == v.data
        total == "(Total: " \o ToString(Len(d)) \o ")"
    IN
    CASE t = "list_users" -> "Users " \o total \o ":"
      [] t = "get_user" -> "User Details:" \o IdAndName(d)
      [] t = "create_user" ->
            "User created successfully:" \o IdAndName(d)
                \o "\n- Email: " \o d.email
                \o "\n- Admin: " \o YesNo(d.admin, "Yes", "No")
                \o "\n- Role: " \o ToString(d.role)
      [] t = "update_user_email" ->
            "User " \o ToString(d.id) \o " email updated to: " \o d.email
      [] t = "update_user_name" ->
            "User " \o ToString(d.id) \o " name updated to: " \o d.name
      [] t = "update_user_admin" ->
            "User " \o ToString(d.id) \o " admin status set to: "
                \o (IF d.admin THEN "Yes" ELSE "No")
      [] t = "update_user_role" ->
            "User " \o ToString(d.id) \o " role updated to: "
                \o ToString(d.role)
      [] t = "list_routine_parameters" -> "Routine Parameters:"
      [] t = "list_routines" ->
            IF Len(d) = 0 THEN "No routines found."
            ELSE "Routines " \o total \o ":"
      [] t = "get_routine" -> "Routine Details:" \o IdAndName(d)
      [] t = "create_routine" ->
            "Routine created successfully:" \o IdAndName(d)
      [] t = "update_routine" ->
            "Routine updated successfully:" \o IdAndName(d)
      [] t = "run_routine" -> v.message \o "\n- Routine: " \o d.name
      [] t = "list_exchange_parameters" -> "Exchange Parameters:"
      [] t = "list_exchanges" ->
            IF Len(d) = 0
            THEN "No exchanges found for user " \o Show(Get(p, "user_id"))
                    \o "."
            ELSE "Exchanges for User " \o Show(Get(p, "user_id")) \o " "
                    \o total \o ":"
      [] t = "get_exchange" -> "Exchange Details:" \o IdAndName(d)
      [] t = "create_exchange" ->
            "Exchange created successfully:" \o IdAndName(d)
                \o "\n- Exchange: " \o d.exchange
                \o "\n- API Error: "
                \o YesNo(d.api_error, "Yes (check credentials)",
                         "No (connectivity OK)")
                \o "\n- USDT Balance: " \o OrNA(d.usdt_balance)
      [] t = "update_exchange" ->
            "Exchange updated successfully:" \o IdAndName(d)
                \o "\n- Exchange: " \o d.exchange
                \o "\n- API Error: "
                \o YesNo(d.api_error, "Yes (check credentials)",
                         "No (connectivity OK)")
      [] t = "list_bot_parameters" -> BotParametersReport(v)
      [] t = "list_bots" -> ListBotsReport(p, v)
      [] t = "get_bot" -> formatBotDetailed(d)
      [] t = "create_bot" -> "Bot created successfully:" \o IdAndName(d)
      [] t = "update_bot" -> "Bot updated successfully:" \o IdAndName(d)
      [] t \in {"refresh_exchange", "start_bot", "stop_bot", "restart_bot",
                "swap_bot_we", "simple_swap_bot_we"} ->
            v.message \o IdAndName(d)
      [] t = "get_bot_status" -> BotStatusReport(d)
      [] t = "list_trades" -> ListTradesReport(p, v)
      [] t = "get_trade" -> formatTradeDetailed(d)
      [] t = "list_trade_symbols" ->
            IF Len(d) = 0
            THEN "No traded symbols found for exchange "
                    \o Show(Get(p, "exchange_id")) \o "."
            ELSE "Traded Symbols for Exchange "
                    \o Show(Get(p, "exchange_id")) \o " " \o total \o ":"
      [] t = "get_pnl_stats" -> PnlStatsReport(p, v)

\* a handler of update_user_password that repeats the new password
RenderSuccessEchoing(t, p, v) ==
    IF t = "update_user_password"
    THEN TextResult("success",
            "User " \o Show(Get(p, "user_id"))
                \o " password updated to " \o Show(Get(p, "password")) \o ".")
    ELSE IF "data" \notin DOMAIN v
    THEN Raised([name |-> "TypeError",
                 message |-> "Cannot read properties of undefined"])
    ELSE TextResult("success", ReportHeading(t, p, v))

\* The try block after the awaited client call returned v.  Every handler but
\* updateUserPassword reads properties of response.data, which throws a
\* TypeError when the decoded body has no data property.
RenderSuccess(t, p, v) ==
    IF t = "update_user_password"
    THEN TextResult("success",
            "User " \o Show(Get(p, "user_id"))
                \o " password updated successfully.")
    ELSE IF "data" \notin DOMAIN v
    THEN Raised([name |-> "TypeError",
                 message |-> "Cannot read properties of undefined"])
    ELSE TextResult("success", ReportHeading(t, p, v))

\* a catch block without the branch for status 404
CatchNo404(t, p, e) ==
    IF IsApiError(e) THEN TextResult("generic", GenericErrorText(t, e))
    ELSE Raised(e)

\* a catch block that renders every thrown value as the generic text
CatchAll(t, p, e) ==
    IF IsApiError(e) /\ Entity(t) # "" /\ e.status = 404
    THEN TextResult("notfound", NotFoundText(t, p))
    ELSE TextResult("generic", GenericErrorText(t, e))

\* a catch block that throws server-side errors (status 500 and above) on
CatchRethrow5xx(t, p, e) ==
    IF IsApiError(e) /\ e.status < 500
    THEN IF Entity(t) # "" /\ e.status = 404
         THEN TextResult("notfound", NotFoundText(t, p))
         ELSE TextResult("generic", GenericErrorText(t, e))
    ELSE Raised(e)

\* a catch block with a text of its own for status 422
Catch422(t, p, e) ==
    IF IsApiError(e)
    THEN IF Entity(t) # "" /\ e.status = 404
         THEN TextResult("notfound", NotFoundText(t, p))
         ELSE IF e.status = 422
         THEN TextResult("generic", "Validation conflict: " \o e.message)
         ELSE TextResult("generic", GenericErrorText(t, e))
    ELSE Raised(e)

\* a catch block with a branch for status 404 in every handler
Catch404Everywhere(t, p, e) ==
    IF IsApiError(e)
    THEN IF e.status = 404
         THEN TextResult("notfound",
                 (IF Entity(t) # "" THEN Entity(t) ELSE "Resource")
                    \o " with ID " \o Show(Get(p, IdParam(t)))
                    \o " not found.")
         ELSE TextResult("generic", GenericErrorText(t, e))
    ELSE Raised(e)

\* The catch block of handler t for the thrown value e.
Catch(t, p, e) ==
    IF IsApiError(e)
    THEN IF Entity(t) # "" /\ e.status = 404
         THEN TextResult("notfound", NotFoundText(t, p))
         ELSE TextResult("generic", GenericErrorText(t, e))
    ELSE Raised(e)

\* Handler t resumed with the outcome of its awaited client call.
Resume(t, p, outcome) ==
    IF outcome.k = "throw" THEN Catch(t, p, outcome.error)
    ELSE LET r == RenderSuccess(t, p, outcome.value) IN
         IF r.k = "raised" THEN Catch(t, p, r.error) ELSE r

\* ------------------------------------------------------------ state

VARIABLES
    env,      \* process.env: the two variables the configuration reads; the
              \* program never writes it
    config,   \* the module variable `config` of config.ts (Null until loaded)
    client,   \* the module variable `client` of the client module
    server,   \* "starting" until main() has connected the transport
    calls     \* the tool invocations in flight, one record per slot

vars == <<env, config, client, server, calls>>

\* how many tool invocations the harness may have in flight at once
MaxInFlight == 1

CallIds == 1..MaxInFlight

None == [none |-> TRUE]

Idle ==
    [pc |-> "idle", tool |-> "", args |-> None, params |-> None,
     request |-> None, fetches |-> 0, net |-> None, outcome |-> None,
     result |-> None]

EnvUrls == {Undefined, Str(""), Str("https://api.test"), Str("https://api.test/")}
EnvTokens == {Undefined, Str("secret-token")}

\* ---- what the harness may send, and what the network may answer

RoutineUuid == Str("123e4567-e89b-12d3-a456-426614174000")

NoArgs == [x \in {} |-> None]

TrendFlip ==
    [user_id |-> Num(7), name |-> Str("Trend Flip"),
     grid_mode |-> Str("static"), grid_id |-> Num(0), lm |-> Str("n"),
     lwe |-> Num(2), sm |-> Str("n"), swe |-> Num(2)]

\* a routine whose six action fields all differ from one another
GridSwitch ==
    [user_id |-> Num(8), name |-> Str("Grid Switch"),
     grid_mode |-> Str("custom"), grid_id |-> Num(4), lm |-> Str("m"),
     lwe |-> Num(0), sm |-> Str("gs"), swe |-> Num(11)]

NewBot ==
    [name |-> Str("Bot A"), exchange_id |-> Num(3), symbol_id |-> Num(11),
     market_type |-> Str("futures"), grid_mode |-> Str("neat"),
     lm |-> Str("n"), lwe |-> Num(1), sm |-> Str("m"), swe |-> Num(0)]

\* The arguments the harness sends with a call of tool t: for each tool the
\* well-formed ones and, for some, arguments its schema rejects.
Args(t) ==
    CASE t \in {"get_user", "get_exchange", "refresh_exchange", "start_bot",
                "stop_bot", "restart_bot", "simple_swap_bot_we",
                "get_bot_status", "get_trade"} -> {[id |-> Num(999)]}
      [] t = "get_bot" ->
            {[id |-> Num(999)], [id |-> Num(0)], [id |-> Half(3)]}
      [] t = "create_user" ->
            {[name |-> Str("Ann"), email |-> Str("ann@kriptty.test"),
              password |-> Str(w), role |-> Num(2)] :
                w \in {"12345678", "correct horse"}}
      [] t = "update_user_email" ->
            {[user_id |-> Num(999), email |-> Str("ann@kriptty.test")]}
      [] t = "update_user_name" ->
            {[user_id |-> Num(999), name |-> Str("Ann")]}
      [] t = "update_user_password" ->
            {[user_id |-> Num(999), password |-> Str(w)] :
                w \in {"12345678", "correct horse", "short"}}
      [] t = "update_user_admin" ->
            {[user_id |-> Num(999), admin |-> Bool(TRUE)]}
      [] t = "update_user_role" -> {[user_id |-> Num(999), role |-> Num(1)]}
      [] t = "get_routine" -> {[id |-> RoutineUuid], [id |-> Str("42")]}
      [] t = "create_routine" ->
            {TrendFlip, GridSwitch, [TrendFlip EXCEPT !.lwe = Num(-1)]}
      [] t = "update_routine" ->
            {[id |-> RoutineUuid, lwe |-> Num(0), grid_id |-> Num(0)],
             [id |-> RoutineUuid, name |-> Str("Flip"), swe |-> Num(12)]}
      [] t = "run_routine" -> {[id |-> RoutineUuid, exchange_id |-> Num(3)]}
      [] t = "list_exchanges" -> {[user_id |-> Num(999)]}
      [] t = "create_exchange" ->
            {[user_id |-> Num(7), name |-> Str("Main"),
              exchange |-> Str("okx"), risk_mode |-> Str("2"),
              api_key |-> Str(k[1]), api_secret |-> Str(k[2]),
              api_frase |-> Str(k[3])] :
                k \in {<<"key", "sec", "">>, <<"key2", "sec2", "frase2">>}}
      [] t = "update_exchange" ->
            {[id |-> Num(999), name |-> Str("Main"), api_frase |-> Str("")],
             [id |-> Num(999), name |-> Str("Main"), api_key |-> Str("key2"),
              api_secret |-> Str("sec2"), api_frase |-> Str("frase2")]}
      [] t = "list_bots" ->
            {NoArgs, [user_id |-> Num(5)], [exchange_id |-> Num(3)],
             [user_id |-> Num(5), exchange_id |-> Num(3)],
             [user_id |-> Num(0)]}
      [] t = "create_bot" ->
            {NewBot} \cup
            {[f \in DOMAIN NewBot \cup {"leverage"} |->
                IF f = "leverage" THEN x ELSE NewBot[f]] :
                    x \in {Num(0), Num(126), Half(2), Half(125)}}
      [] t = "update_bot" ->
            {[id |-> Num(999), grid_id |-> Null, lwe |-> Num(0),
              oh_mode |-> Bool(FALSE)]}
      [] t = "swap_bot_we" -> {[id |-> Num(999), new_trend |-> Str("LONG")]}
      [] t = "list_trades" ->
            {[exchange_id |-> Num(3), symbol |-> Str(""),
              per_page |-> Num(50)]}
      [] t = "list_trade_symbols" -> {[exchange_id |-> Num(3)]}
      [] t = "get_pnl_stats" ->
            {[exchange_id |-> Num(3), period |-> Str("daily")]}
      [] OTHER -> {NoArgs}

Entity7 ==
    [id |-> 7, name |-> "n7", email |-> "u7@kriptty.test", admin |-> FALSE,
     role |-> 2]

\* an exchange as the server reports it after a creation or an update
Exchange7 ==
    [id |-> 7, name |-> "Main", exchange |-> "okx", api_error |-> FALSE,
     usdt_balance |-> Str("1500.25")]

\* a trade whose closed_pnl is pnl
TradeWith(id, pnl) ==
    [id |-> id, exchange_id |-> 3, position_id |-> 11, symbol |-> "BTCUSDT",
     nice_name |-> "BTC/USDT", order_id |-> "o-51", order_oid |-> Null,
     side |-> "Buy", qty |-> Str("0.5"), order_price |-> Null,
     order_type |-> "Market", exec_type |-> "Trade",
     closed_size |-> Str("0.5"), avg_entry_price |-> Str("64000.1"),
     avg_exit_price |-> Null, closed_pnl |-> pnl, fill_count |-> Num(2),
     leverage |-> Null, created_at |-> "2024-01-15T10:00:00Z",
     updated_at |-> "2024-01-15T10:05:00Z"]

\* a page of trades with its pagination
TradesJson(trades) ==
    [data |-> trades,
     meta |-> [current_page |-> 1, last_page |-> 1, total |-> Len(trades),
               from |-> 1, to |-> Len(trades)]]

PnlRecordOf(date, year, month_name, symbol, total_trades, pnl) ==
    [date |-> date, year |-> year, month_name |-> month_name,
     symbol |-> symbol, total_trades |-> total_trades, pnl |-> pnl]

PnlStatsJson(period, records, global_pnl) ==
    [data |-> [period |-> period, records |-> records,
               global_pnl |-> global_pnl]]

SymbolOf(id, exchange) ==
    [id |-> id, nice_name |-> "SYM" \o ToString(id) \o "/USDT",
     exchange |-> exchange]

BotParametersJson(symbols) ==
    [data |->
        [bot_modes |-> << <<"grid", "Grid" >>, <<"dca", "DCA">> >>,
         grid_modes |-> << <<"long", "Long">>, <<"short", "Short">> >>,
         market_types |-> << <<"spot", "Spot">>, <<"futures", "Futures">> >>,
         grids |-> <<[id |-> 4, name |-> "g4", user_id |-> 7]>>,
         symbols |-> symbols,
         fields |-> [required |-> <<"name", "exchange_id">>,
                     optional |-> <<"leverage">>,
                     notes |-> << <<"leverage", "1 to 100">> >>]]]

\* a bot as the server reports it: the process flag and the pid
BotWith(id, is_running, pid) ==
    [id |-> id, name |-> "bot" \o ToString(id), market_type |-> "futures",
     grid_mode |-> "neat", lm |-> "n", lwe |-> 1, sm |-> "gs", swe |-> 0,
     leverage |-> 10, assigned_balance |-> 0, oh_mode |-> TRUE,
     show_logs |-> FALSE, is_on_trend |-> FALSE, is_on_routines |-> TRUE,
     pid |-> pid, started_at |-> Str("2024-01-15T10:00:00Z"),
     stopped_at |-> Null, is_running |-> is_running, user_id |-> 5,
     exchange_id |-> 3, grid_id |-> Null, symbol_id |-> 11,
     exchange |-> Obj([id |-> 3, name |-> "Main", exchange |-> "okx"]),
     symbol |-> Undefined, grid |-> Null,
     created_at |-> "2024-01-01T00:00:00Z",
     updated_at |-> "2024-01-15T10:00:00Z"]

\* a decoded body of the shape handler t expects
GoodJson(t) ==
    IF t = "list_bots"
    THEN [data |-> <<BotWith(1, TRUE, Num(4242)), BotWith(2, FALSE, Null)>>]
    ELSE IF t \in {"get_bot", "get_bot_status"}
    THEN [data |-> BotWith(999, TRUE, Num(4242))]
    ELSE IF t \in {"create_exchange", "update_exchange"}
    THEN [data |-> Exchange7]
    ELSE IF t = "list_trades"
    THEN TradesJson(<<TradeWith(1, Dec(123456)), TradeWith(2, Null)>>)
    ELSE IF t = "get_trade" THEN [data |-> TradeWith(999, Dec(-75000))]
    ELSE IF t = "get_pnl_stats"
    THEN PnlStatsJson("daily",
            <<PnlRecordOf(Str("2024-01-15"), Num(2024), Str("January"),
                          "BTCUSDT", 3, Dec(123456))>>, Dec(0))
    ELSE IF t = "list_bot_parameters"
    THEN BotParametersJson(<<SymbolOf(1, "bybit"), SymbolOf(2, "okx")>>)
    ELSE IF t \in ListTools THEN [data |-> <<Entity7>>, message |-> "OK"]
    ELSE [data |-> Entity7, message |-> "Done."]

HttpResponse(status, statusText, text, json) ==
    [k |-> "response", status |-> status, statusText |-> statusText,
     body |-> [text |-> text, json |-> json]]

\* How the fetch of a call of tool t may settle: fetch rejects (the server
\* was not reached), or a response arrives with some status and body.
NetOutcomes(t) ==
    { [k |-> "reject",
       error |-> [name |-> "TypeError", message |-> "fetch failed"]],
      HttpResponse(200, "OK", "{\"data\":...}", GoodJson(t)),
      HttpResponse(200, "OK", "<html>", NotJson),
      HttpResponse(204, "No Content", "", NotJson),
      HttpResponse(200, "OK", "{\"message\":\"OK\"}", [message |-> "OK"]),
      HttpResponse(299, "", "{\"data\":...}", GoodJson(t)),
      HttpResponse(300, "Multiple Choices", "", NotJson),
      HttpResponse(404, "Not Found", "{\"message\":\"Not found\"}",
                   [message |-> "Not found"]),
      HttpResponse(422, "Unprocessable Entity",
                   "{\"message\":\"Bot is already running\"}",
                   [message |-> "Bot is already running"]),
      HttpResponse(500, "Internal Server Error", "oops", NotJson) }

\* ---- one invocation

\* a handler without the local check of the filters
ListBotsGateAbsent(p) == FALSE

\* a gate that wants both filters
ListBotsGateEither(p) ==
    ~Truthy(Get(p, "user_id")) \/ ~Truthy(Get(p, "exchange_id"))

\* listBots: if (!params.user_id && !params.exchange_id)
ListBotsGate(p) ==
    ~Truthy(Get(p, "user_id")) /\ ~Truthy(Get(p, "exchange_id"))

Done(c, result) == [c EXCEPT !.pc = "done", !.result = result]

\* The harness's check of the arguments and, when they pass, the handler of
\* tool t run up to its first await.  cl, cfg and e are the client singleton,
\* the configuration singleton and the environment at that moment; the result
\* is the new singletons and the invocation's record.
StartCall(t, raw, cl, cfg, e) ==
    LET c0 == [Idle EXCEPT !.tool = t, !.args = raw]
        keep == [client |-> cl, config |-> cfg]
    IN
    IF ~Valid(t, raw)
    THEN keep @@ [call |-> Done(c0, [k |-> "rejected"])]
    ELSE
    LET p == HandlerParams(t, raw)
        c == [c0 EXCEPT !.params = p]
    IN
    IF t = "list_roles"
    THEN keep @@ [call |-> Done(c, TextResult("success", ListRolesText))]
    ELSE IF t = "list_bots" /\ ListBotsGate(p)
    THEN keep @@ [call |-> Done(c, TextResult("local", ListBotsLocalError))]
    ELSE
    LET got == getApiClient(cl, cfg, e) IN
    IF got.out.k = "throw"
    THEN [client |-> got.client, config |-> got.config,
          call |-> Done(c, Catch(t, p, got.out.error))]
    ELSE [client |-> got.client, config |-> got.config,
          call |-> [c EXCEPT !.pc = "awaiting",
                             !.request = FetchCall(got.out.value,
                                            Endpoint(t, p), Method(t),
                                            RequestBody(t, p)),
                             !.fetches = @ + 1]]

\* a gateway that fetches once more when fetch has rejected
SettleCallRetry(c, net) ==
    IF net.k = "reject" /\ c.fetches < 2
    THEN [c EXCEPT !.fetches = @ + 1]
    ELSE LET outcome == RequestResult(net) IN
         Done([c EXCEPT !.net = net, !.outcome = outcome],
              Resume(c.tool, c.params, outcome))

\* a handler that cites the address it asked in its text
SettleCallCitingUrl(c, net) ==
    LET outcome == RequestResult(net)
        r == Resume(c.tool, c.params, outcome)
    IN  Done([c EXCEPT !.net = net, !.outcome = outcome],
             IF r.k = "text" THEN TextResult(r.via, r.text \o c.request.url)
             ELSE r)

\* The invocation c resumed when its fetch has settled with net.
SettleCall(c, net) ==
    LET outcome == RequestResult(net) IN
    Done([c EXCEPT !.net = net, !.outcome = outcome],
         Resume(c.tool, c.params, outcome))

\* ---- actions

\* The harness receives what an invocation ended with; nothing else runs
\* between a handler's return and that (promise reactions run first).
NoneDone == \A i \in DOMAIN calls : calls[i].pc # "done"

\* main(): the transport is connected and tool calls are served.
Connect ==
    /\ server = "starting"
    /\ server' = "running"
    /\ UNCHANGED <<env, config, client, calls>>

Begin(i, t, raw) ==
    /\ server = "running"
    /\ NoneDone
    /\ calls[i].pc = "idle"
    /\ LET s == StartCall(t, raw, client, config, env) IN
          /\ client' = s.client
          /\ config' = s.config
          /\ calls' = [calls EXCEPT ![i] = s.call]
    /\ UNCHANGED <<env, server>>

\* The harness calls a tool.
Invoke ==
    \E i \in DOMAIN calls, t \in Tools : \E raw \in Args(t) : Begin(i, t, raw)

\* The fetch of an invocation settles and its handler runs to its end.
Settle ==
    \E i \in DOMAIN calls :
        /\ calls[i].pc = "awaiting"
        /\ NoneDone
        /\ \E net \in NetOutcomes(calls[i].tool) :
              calls' = [calls EXCEPT ![i] = SettleCall(calls[i], net)]
        /\ UNCHANGED <<env, config, client, server>>

\* The harness takes the invocation's outcome; the slot is free again.
Deliver ==
    \E i \in DOMAIN calls :
        /\ calls[i].pc = "done"
        /\ calls' = [calls EXCEPT ![i] = Idle]
        /\ UNCHANGED <<env, config, client, server>>

\* ---- the update tools called with few of their optional fields

\* how many optional fields a call of an update tool supplies at most
MaxSupplied == 2

UpdateTools == {"update_routine", "update_exchange", "update_bot"}

\* one value the schema admits for each optional field of the update tools,
\* the falsy ones (0, "", false) among them
SuppliedValue ==
    [name |-> Str("Flip"), grid_mode |-> Str("static"), lm |-> Str("n"),
     lwe |-> Num(0), sm |-> Str("gs"), swe |-> Num(11),
     exchange |-> Str("okx"), risk_mode |-> Str("1"), api_key |-> Str("key"),
     api_secret |-> Str("sec"), api_frase |-> Str(""),
     is_testnet |-> Bool(FALSE), symbol_id |-> Num(11),
     market_type |-> Str("spot"), leverage |-> Num(1),
     assigned_balance |-> Num(0), oh_mode |-> Bool(FALSE),
     show_logs |-> Bool(TRUE), is_on_trend |-> Bool(FALSE),
     is_on_routines |-> Bool(TRUE)]

\* grid_id: a routine's may be 0, a bot's may be null
GridIds(t) == IF t = "update_bot" THEN {Null, Num(4)} ELSE {Num(0), Num(4)}

OptionalFields(t) ==
    CASE t = "update_routine" -> RoutineActionFields \cup {"name"}
      [] t = "update_exchange" -> UpdateExchangeFields
      [] t = "update_bot" -> UpdateBotFields

\* The arguments of a call of update tool t that supplies the id and at most
\* MaxSupplied of the optional fields.
SparseArgs(t) ==
    { [f \in S \cup {"id"} |->
            IF f = "id"
            THEN (IF t = "update_routine" THEN RoutineUuid ELSE Num(999))
            ELSE IF f = "grid_id" THEN g ELSE SuppliedValue[f]] :
        S \in {T \in SUBSET OptionalFields(t) : Cardinality(T) <= MaxSupplied},
        g \in GridIds(t) }

\* The harness calls an update tool.
InvokeSparse ==
    \E i \in DOMAIN calls :
        /\ server = "running"
        /\ calls[i].pc = "idle"
        /\ \E t \in UpdateTools : \E raw \in SparseArgs(t) : Begin(i, t, raw)

InitSparse ==
    /\ env = [KRIPTTY_API_URL |-> Str("https://api.test/"),
              KRIPTTY_API_TOKEN |-> Str("secret-token")]
    /\ config = Null
    /\ client = Null
    /\ server = "starting"
    /\ calls = [i \in {1} |-> Idle]

NextSparse == Connect \/ InvokeSparse \/ Settle \/ Deliver

SpecSparse == InitSparse /\ [][NextSparse]_vars

\* ---- the tools whose report is computed from the response

\* how many trades a page holds and how many records the statistics hold
MaxRecords == 3

\* how many symbols the bot parameters hold
MaxSymbols == 15

ReportTools ==
    {"list_trades", "get_trade", "get_pnl_stats", "list_bot_parameters",
     "list_bots"}

ReportArgs(t) ==
    CASE t = "list_trades" ->
            {[exchange_id |-> Num(3), per_page |-> Num(50)],
             [exchange_id |-> Num(3), symbol |-> Str("BTCUSDT")]}
      [] t = "get_trade" -> {[id |-> Num(999)]}
      [] t = "get_pnl_stats" ->
            {[exchange_id |-> Num(3), period |-> Str(q)] :
                q \in {"daily", "monthly", "yearly"}}
      [] t = "list_bot_parameters" -> {NoArgs}
      [] t = "list_bots" -> {[user_id |-> Num(5)], [exchange_id |-> Num(3)]}

\* sequences of at most n elements of S
SeqsUpTo(S, n) == UNION {[1..k -> S] : k \in 0..n}

\* pnl texts: a loss, a loss and a gain below the fourth decimal, zero, a gain
PnlTexts == {Dec(-75000), Dec(-2), Dec(0), Dec(4), Dec(123456)}

\* records the statistics of a period may hold
PnlRecords(period) ==
    CASE period = "daily" ->
            {PnlRecordOf(Str("2024-01-15"), Num(2024), Str("January"),
                         "BTCUSDT", 3, Dec(123456)),
             PnlRecordOf(Str("2024-01-15"), Num(2024), Str("January"),
                         "ETHUSDT", 2, Dec(-75000)),
             PnlRecordOf(Str("2024-01-16"), Num(2024), Str("January"),
                         "BTCUSDT", 1, Dec(-2)),
             PnlRecordOf(Undefined, Num(2024), Undefined,
                         "SOLUSDT", 6, Dec(4)),
             PnlRecordOf(Undefined, Undefined, Undefined,
                         "XRPUSDT", 8, Dec(0))}
      [] period = "monthly" ->
            {PnlRecordOf(Undefined, Num(2024), Str("February"),
                         "BTCUSDT", 5, Dec(4)),
             PnlRecordOf(Undefined, Num(2024), Str("January"),
                         "BTCUSDT", 4, Dec(-75000)),
             PnlRecordOf(Undefined, Num(2024), Str("February"),
                         "ETHUSDT", 1, Dec(0)),
             PnlRecordOf(Undefined, Num(2024), Undefined,
                         "SOLUSDT", 6, Dec(-2))}
      [] period = "yearly" ->
            {PnlRecordOf(Undefined, Num(2024), Undefined,
                         "BTCUSDT", 9, Dec(123456)),
             PnlRecordOf(Undefined, Num(2023), Undefined,
                         "BTCUSDT", 7, Dec(-2)),
             PnlRecordOf(Undefined, Num(2024), Undefined,
                         "ETHUSDT", 2, Dec(4))}

\* symbols numbered from 1: a of one vendor, b of another, c of the first
SymbolsOfPattern(a, b, c) ==
    [i \in 1..(a + b + c) |->
        SymbolOf(i, IF i <= a \/ i > a + b THEN "bybit" ELSE "okx")]

\* what the server may report of a bot's process: the flag and the pid, a
\* pid left behind by a stopped process and a running flag without pid too
ProcessStates ==
    {<<TRUE, Num(4242)>>, <<TRUE, Null>>, <<FALSE, Num(4242)>>,
     <<FALSE, Null>>}

\* the decoded bodies that may answer the request of call c with status 200
ReportJsons(c) ==
    CASE c.tool = "list_bots" ->
            {[data |-> [n \in 1..Len(ps) |-> BotWith(n, ps[n][1], ps[n][2])]] :
                ps \in SeqsUpTo(ProcessStates, MaxRecords)}
      [] c.tool = "list_trades" ->
            {TradesJson([i \in 1..Len(pnls) |-> TradeWith(i, pnls[i])]) :
                pnls \in SeqsUpTo(PnlTexts \cup {Null}, MaxRecords - 1)}
      [] c.tool = "get_trade" ->
            {[data |-> TradeWith(999, pnl)] : pnl \in PnlTexts \cup {Null}}
      [] c.tool = "get_pnl_stats" ->
            {PnlStatsJson(c.params.period.str, records, global) :
                records \in SeqsUpTo(PnlRecords(c.params.period.str),
                                     MaxRecords),
                global \in {Dec(-75000), Dec(123456)}}
      [] c.tool = "list_bot_parameters" ->
            {BotParametersJson(SymbolsOfPattern(n[1], n[2], n[3])) :
                n \in {m \in (0..MaxSymbols) \X (0..MaxSymbols)
                                \X (0..MaxSymbols) :
                            m[1] + m[2] + m[3] <= MaxSymbols}}

\* The harness calls a tool whose report is computed from the response.
InvokeReport ==
    \E i \in DOMAIN calls :
        /\ server = "running"
        /\ calls[i].pc = "idle"
        /\ \E t \in ReportTools : \E raw \in ReportArgs(t) : Begin(i, t, raw)

\* The fetch of an invocation settles with status 200 and a body of the
\* shape its handler expects, and the handler runs to its end.
SettleReport ==
    \E i \in DOMAIN calls :
        /\ calls[i].pc = "awaiting"
        /\ NoneDone
        /\ \E json \in ReportJsons(calls[i]) :
              calls' = [calls EXCEPT ![i] =
                          SettleCall(calls[i],
                                     HttpResponse(200, "OK", "{...}", json))]
        /\ UNCHANGED <<env, config, client, server>>

InitReports ==
    /\ env = [KRIPTTY_API_URL |-> Str("https://api.test"),
              KRIPTTY_API_TOKEN |-> Str("secret-token")]
    /\ config = Null
    /\ client = Null
    /\ server = "starting"
    /\ calls = [i \in {1} |-> Idle]

NextReports == Connect \/ InvokeReport \/ SettleReport \/ Deliver

SpecReports == InitReports /\ [][NextReports]_vars

\* ---- invocations side by side, in an environment that changes

\* how many invocations are in flight side by side
MaxShared == 2

SharedTools == {"list_users", "get_bot", "list_roles"}

\* process.env is assigned: a variable is set, changed or deleted
SetEnv ==
    /\ NoneDone
    /\ \E u \in EnvUrls, k \in EnvTokens :
          /\ [KRIPTTY_API_URL |-> u, KRIPTTY_API_TOKEN |-> k] # env
          /\ env' = [KRIPTTY_API_URL |-> u, KRIPTTY_API_TOKEN |-> k]
    /\ UNCHANGED <<config, client, server, calls>>

\* The harness calls one of the tools of SharedTools.
InvokeShared ==
    \E i \in DOMAIN calls :
        /\ server = "running"
        /\ calls[i].pc = "idle"
        /\ \E t \in SharedTools : \E raw \in Args(t) : Begin(i, t, raw)

InitShared ==
    /\ env \in [KRIPTTY_API_URL : EnvUrls, KRIPTTY_API_TOKEN : EnvTokens]
    /\ config = Null
    /\ client = Null
    /\ server = "starting"
    /\ calls = [i \in 1..MaxShared |-> Idle]

NextShared == Connect \/ SetEnv \/ InvokeShared \/ Settle \/ Deliver

SpecShared == InitShared /\ [][NextShared]_vars

Init ==
    /\ env \in [KRIPTTY_API_URL : EnvUrls, KRIPTTY_API_TOKEN : EnvTokens]
    /\ config = Null
    /\ client = Null
    /\ server = "starting"
    /\ calls = [i \in CallIds |-> Idle]

Next == Connect \/ Invoke \/ Settle \/ Deliver

Spec == Init /\ [][Next]_vars

\* ------------------------------------------------------------ properties

\* the invocations that have ended and whose fetch was answered by a response
Answered(c) == c.pc = "done" /\ c.net # None /\ c.net.k = "response"

\* C1: when the backend answers an operation that addresses one entity by
\* its id with status 404, the handler returns exactly
\* "<Entity> with ID <id> not found.", with the id the caller gave, and never
\* the generic error text.
C1_NotFoundExact ==
    \A i \in DOMAIN calls :
        LET c == calls[i]
            entity ==
                CASE c.tool \in {"get_user", "update_user_email",
                        "update_user_name", "update_user_password",
                        "update_user_admin", "update_user_role"} -> "User"
                  [] c.tool \in {"get_routine", "update_routine",
                        "run_routine"} -> "Routine"
                  [] c.tool \in {"get_exchange", "update_exchange",
                        "refresh_exchange"} -> "Exchange"
                  [] c.tool \in {"get_bot", "update_bot", "start_bot",
                        "stop_bot", "restart_bot", "swap_bot_we",
                        "simple_swap_bot_we", "get_bot_status"} -> "Bot"
                  [] c.tool = "get_trade" -> "Trade"
                  [] OTHER -> ""
            given == IF "user_id" \in DOMAIN c.args /\ entity = "User"
                     THEN c.args.user_id ELSE c.args.id
            id == IF IsNum(given) THEN ToString(given.num) ELSE given.str
        IN  (Answered(c) /\ c.net.status = 404 /\ entity # "") =>
                /\ c.result.k = "text"
                /\ c.result.via = "notfound"
                /\ c.result.text = entity \o " with ID " \o id \o " not found."

C1_Witness ==
    \E i \in DOMAIN calls :
        /\ Answered(calls[i])
        /\ calls[i].tool = "get_bot"
        /\ calls[i].args = [id |-> Num(999)]
        /\ calls[i].net.status = 404
        /\ calls[i].result.text = "Bot with ID 999 not found."

\* C2: when the backend answers any operation with a status outside 200..299
\* other than 404, the handler returns normally the text
\* "Error <doing-X>: <message>", where <message> is the gateway's message
\* with status, reason phrase and raw body, unchanged.
C2_GenericErrorVerbatim ==
    \A i \in DOMAIN calls :
        LET c == calls[i] IN
        (/\ Answered(c)
         /\ c.net.status \notin 200..299
         /\ c.net.status # 404) =>
            /\ c.result.k = "text"
            /\ c.result.via = "generic"
            /\ c.result.text =
                  "Error " \o Doing(c.tool) \o ": API request failed: "
                     \o ToString(c.net.status) \o " " \o c.net.statusText
                     \o ". " \o c.net.body.text

C2_Witness ==
    \E i \in DOMAIN calls :
        /\ Answered(calls[i])
        /\ calls[i].tool = "start_bot"
        /\ calls[i].net.status = 422
        /\ calls[i].result.text =
              "Error starting bot: API request failed: 422 Unprocessable Entity. {\"message\":\"Bot is already running\"}"

\* C3: a failure that is not a structured HTTP error -- fetch rejects, a
\* 2xx response carries a body that is not JSON, or the handler trips over a
\* decoded body of the wrong shape -- is never turned into a text: the
\* invocation ends raising that same error.
C3_TransportErrorsRaised ==
    \A i \in DOMAIN calls :
        LET c == calls[i] IN
        (c.pc = "done" /\ c.net # None) =>
            /\ c.net.k = "reject" => c.result = [k |-> "raised", error |-> c.net.error]
            /\ (c.net.k = "response" /\ c.net.status \in 200..299
                    /\ c.net.body.json = NotJson) =>
                    /\ c.result.k = "raised"
                    /\ c.result.error.name = "SyntaxError"
            /\ (c.net.k = "response" /\ c.net.status \in 200..299
                    /\ c.net.body.json # NotJson
                    /\ "data" \notin DOMAIN c.net.body.json
                    /\ c.tool # "update_user_password") =>
                    /\ c.result.k = "raised"
                    /\ c.result.error.name = "TypeError"

C3_Witness ==
    \E i \in DOMAIN calls :
        /\ calls[i].pc = "done"
        /\ calls[i].net # None
        /\ calls[i].net.k = "reject"
        /\ calls[i].result.k = "raised"
        /\ calls[i].result.error.message = "fetch failed"

\* the handler of the invocation was run (its arguments passed the schema)
HandlerRan(c) == c.pc \in {"awaiting", "done"} /\ c.result # [k |-> "rejected"]

\* both environment values are set to a text that is not empty
EnvComplete ==
    /\ IsStr(env.KRIPTTY_API_URL) /\ env.KRIPTTY_API_URL.str # ""
    /\ IsStr(env.KRIPTTY_API_TOKEN) /\ env.KRIPTTY_API_TOKEN.str # ""

\* C4 as stated: every invocation whose handler runs ends with a text that is
\* the success text, the not-found text or the generic error text, and
\* nothing is ever raised out of a handler.
C4_AlwaysOneOfThreeTexts ==
    \A i \in DOMAIN calls :
        (calls[i].pc = "done" /\ HandlerRan(calls[i])) =>
            /\ calls[i].result.k = "text"
            /\ calls[i].result.via \in {"success", "notfound", "generic"}

\* C4: an invocation whose handler runs ends either with one text -- the
\* success text, the not-found text, the generic error text or, for
\* list_bots alone, the text of its local check -- or by raising an error
\* that is not a structured HTTP error; a response with a status outside
\* 200..299 always ends as a text.
C4_TextOrTransportRaise ==
    \A i \in DOMAIN calls :
        LET c == calls[i] IN
        (c.pc = "done" /\ HandlerRan(c)) =>
            /\ c.result.k \in {"text", "raised"}
            /\ c.result.k = "text" =>
                  /\ c.result.via \in {"success", "notfound", "generic", "local"}
                  /\ c.result.via = "local" => c.tool = "list_bots"
            /\ c.result.k = "raised" => c.result.error.name # "ApiError"
            /\ (Answered(c) /\ c.net.status \notin 200..299) =>
                  c.result.k = "text"

C4_Witness ==
    \E i \in DOMAIN calls :
        /\ Answered(calls[i])
        /\ calls[i].net.status = 500
        /\ calls[i].result.k = "text"
        /\ calls[i].result.via = "generic"

\* the query string listBots is to send for the arguments a
BotsQueryOf(a) ==
    (IF "user_id" \in DOMAIN a
        THEN "user_id=" \o ToString(a.user_id.num) ELSE "")
    \o (IF "user_id" \in DOMAIN a /\ "exchange_id" \in DOMAIN a
        THEN "&" ELSE "")
    \o (IF "exchange_id" \in DOMAIN a
        THEN "exchange_id=" \o ToString(a.exchange_id.num) ELSE "")

StructuredErrorOf(net) ==
    [name |-> "ApiError", status |-> net.status, statusText |-> net.statusText,
     message |-> "API request failed: " \o ToString(net.status) \o " "
                    \o net.statusText \o ". " \o net.body.text]

\* C6 as stated: for a response that was received the gateway does one of
\* two things: status in 200..299, it gives the decoded body; any other
\* status, it raises the structured error with status, reason phrase and a
\* message of status, reason phrase and raw body.
C6_TwoOutcomes ==
    \A i \in DOMAIN calls :
        LET c == calls[i] IN
        Answered(c) =>
            IF c.net.status \in 200..299
            THEN c.outcome.k = "value"
            ELSE c.outcome = [k |-> "throw", error |-> StructuredErrorOf(c.net)]

\* C6: for a response that was received the gateway goes by the status: in
\* 200..299 it gives the decoded body as it is when the body is JSON, and
\* raises the decoder's SyntaxError (not a structured error) when it is not;
\* any other status, it raises the structured error with status, reason
\* phrase and a message of status, reason phrase and raw body.
C6_Classification ==
    \A i \in DOMAIN calls :
        LET c == calls[i] IN
        Answered(c) =>
            IF c.net.status \in 200..299
            THEN IF c.net.body.json # NotJson
                 THEN c.outcome = [k |-> "value", value |-> c.net.body.json]
                 ELSE /\ c.outcome.k = "throw"
                      /\ c.outcome.error.name = "SyntaxError"
            ELSE c.outcome = [k |-> "throw", error |-> StructuredErrorOf(c.net)]

C6_Witness ==
    \E i \in DOMAIN calls :
        /\ Answered(calls[i])
        /\ calls[i].net.status = 300
        /\ calls[i].outcome.k = "throw"
        /\ calls[i].outcome.error.status = 300
        /\ calls[i].outcome.error.message =
              "API request failed: 300 Multiple Choices. "

\* the invocation gets past the checks the handler makes before the gateway
PassesLocal(c) ==
    ~(/\ c.tool = "list_bots"
      /\ "user_id" \notin DOMAIN c.args
      /\ "exchange_id" \notin DOMAIN c.args)

\* C7 as stated: an invocation issues at most one request, and exactly one
\* when its handler runs, its local checks pass and the client can be had.
C7_ExactlyOneWhenAvailable ==
    \A i \in DOMAIN calls :
        LET c == calls[i] IN
        /\ c.fetches <= 1
        /\ (HandlerRan(c) /\ PassesLocal(c) /\ EnvComplete) => c.fetches = 1

\* C7: an invocation issues at most one request; list_roles issues none; any
\* other tool issues exactly one when its handler runs, its local checks pass
\* and the client can be had; after a rejected fetch or a response outside
\* 200..299 the count is still one.
C7_AtMostOneRequest ==
    \A i \in DOMAIN calls :
        LET c == calls[i] IN
        /\ c.fetches <= 1
        /\ c.tool = "list_roles" => c.fetches = 0
        /\ (HandlerRan(c) /\ PassesLocal(c) /\ EnvComplete
                /\ c.tool # "list_roles") => c.fetches = 1
        /\ (c.pc = "done" /\ c.net # None) => c.fetches = 1

C7_Witness ==
    \E i \in DOMAIN calls :
        /\ calls[i].pc = "done"
        /\ calls[i].tool = "restart_bot"
        /\ calls[i].net # None
        /\ calls[i].net.k = "reject"
        /\ calls[i].fetches = 1

\* C8: the body that update_routine, update_exchange and update_bot send
\* holds the optional fields the caller supplied, with the caller's values,
\* and no other field; a grid_id of null given to update_bot is sent as null;
\* update_routine sends the supplied action fields under "action" and no
\* "action" when none was supplied.
C8_BodyIsExactlySupplied ==
    \A i \in DOMAIN calls :
        LET c == calls[i]
            supplied == DOMAIN c.args \ {"id"}
            actions == supplied \cap
                          {"grid_mode", "grid_id", "lm", "lwe", "sm", "swe"}
            body == c.request.body.json
        IN  (c.tool \in {"update_routine", "update_exchange", "update_bot"}
                /\ HandlerRan(c) /\ c.request # None) =>
            /\ c.request.method = "PATCH"
            /\ IF c.tool = "update_routine"
               THEN /\ DOMAIN body = (supplied \cap {"name"})
                          \cup (IF actions # {} THEN {"action"} ELSE {})
                    /\ "name" \in supplied => body.name = c.args.name
                    /\ actions # {} =>
                          /\ DOMAIN body.action.obj = actions
                          /\ \A f \in actions : body.action.obj[f] = c.args[f]
               ELSE /\ DOMAIN body = supplied
                    /\ \A f \in supplied : body[f] = c.args[f]

C8_Witness ==
    \E i \in DOMAIN calls :
        /\ calls[i].tool = "update_bot"
        /\ calls[i].args = [id |-> Num(999), grid_id |-> Null, lwe |-> Num(0)]
        /\ calls[i].pc = "awaiting"
        /\ calls[i].request.body = [json |-> [grid_id |-> Null, lwe |-> Num(0)]]

\* C9: when an environment value is missing (unset or empty) and a handler
\* comes to need the gateway, the invocation ends at once by raising
\* "Missing required environment variable: <name>" for the first missing
\* name; it returns no text, no request is issued, and neither singleton is
\* set.
C9_MissingEnvRaises ==
    \A i \in DOMAIN calls :
        LET c == calls[i]
            missing ==
                IF ~IsStr(env.KRIPTTY_API_URL) \/ env.KRIPTTY_API_URL.str = ""
                THEN "KRIPTTY_API_URL" ELSE "KRIPTTY_API_TOKEN"
        IN  (HandlerRan(c) /\ PassesLocal(c) /\ c.tool # "list_roles"
                /\ ~EnvComplete) =>
                /\ c.pc = "done"
                /\ c.result.k = "raised"
                /\ c.result.error.message =
                      "Missing required environment variable: " \o missing
                /\ c.fetches = 0
                /\ c.request = None
                /\ client = Null
                /\ config = Null

C9_Witness ==
    \E i \in DOMAIN calls :
        /\ calls[i].pc = "done"
        /\ calls[i].tool = "list_users"
        /\ env.KRIPTTY_API_TOKEN = Undefined
        /\ IsStr(env.KRIPTTY_API_URL) /\ env.KRIPTTY_API_URL.str # ""
        /\ calls[i].result.k = "raised"
        /\ calls[i].result.error.message =
              "Missing required environment variable: KRIPTTY_API_TOKEN"
        /\ calls[i].fetches = 0

\* C10 as stated: with an environment value missing the process does not
\* come to serve tool calls.
C10_NoServingWithoutEnv == server = "running" => EnvComplete

\* C11: with invocations side by side and the environment changing under
\* them, a configuration and a client that have been constructed are never
\* constructed again or changed; the client holds the configuration's URL
\* (without its trailing slash) and token; and every request in flight goes
\* to that client's base URL with that client's token.
C11_ConstructedOnce ==
    [][/\ config # Null => config' = config
       /\ client # Null => client' = client
       /\ client' # Null =>
            /\ config' # Null
            /\ client'.token = config'.apiToken
            /\ client'.baseUrl =
                  (IF config'.apiUrl = "https://api.test/"
                   THEN "https://api.test" ELSE config'.apiUrl)
       /\ \A i \in DOMAIN calls' :
            calls'[i].request # None =>
                /\ client' # Null
                /\ calls'[i].request.headers.Authorization =
                      "Bearer " \o client'.token
                /\ calls'[i].request.url =
                      client'.baseUrl \o
                         (IF calls'[i].tool = "list_users" THEN "/users"
                          ELSE "/bots/999")]_vars

C11_Witness ==
    /\ client # Null
    /\ env.KRIPTTY_API_TOKEN = Undefined
    /\ env.KRIPTTY_API_URL = Undefined
    /\ \E i, j \in DOMAIN calls :
          /\ i # j
          /\ calls[i].pc = "awaiting"
          /\ calls[j].pc = "awaiting"
          /\ calls[i].request.headers = calls[j].request.headers
          /\ calls[i].request.headers.Authorization = "Bearer secret-token"

\* C12: no request is issued while the configuration singleton is still
\* null: whenever an invocation has issued its request the configuration is
\* loaded, it holds the two environment values, and the request carries that
\* configuration's URL (without its trailing slash), followed by the tool's
\* endpoint, and that configuration's token.
C12_ConfigBeforeRequest ==
    \A i \in DOMAIN calls :
        LET c == calls[i] IN
        (c.fetches > 0 \/ c.request # None) =>
            /\ config # Null
            /\ config.apiUrl = env.KRIPTTY_API_URL.str
            /\ config.apiToken = env.KRIPTTY_API_TOKEN.str
            /\ c.request.headers.Authorization = "Bearer " \o config.apiToken
            /\ c.request.url =
                  (IF config.apiUrl = "https://api.test/"
                   THEN "https://api.test" ELSE config.apiUrl)
                  \o Endpoint(c.tool, c.params)

C12_Witness ==
    \E i \in DOMAIN calls :
        /\ calls[i].pc = "awaiting"
        /\ calls[i].tool = "list_users"
        /\ config = [apiUrl |-> "https://api.test/", apiToken |-> "secret-token"]
        /\ calls[i].request.url = "https://api.test/users"
        /\ calls[i].request.headers.Authorization = "Bearer secret-token"

\* C13 as stated: a run_routine call given an exchange_id issues
\* POST /routines/{id}/run with a JSON body that carries that exchange_id.
C13_RunBodyCarriesExchange ==
    \A i \in DOMAIN calls :
        LET c == calls[i] IN
        (c.tool = "run_routine" /\ c.request # None
            /\ "exchange_id" \in DOMAIN c.args) =>
            /\ c.request.method = "POST"
            /\ c.request.url =
                  "https://api.test/routines/" \o c.args.id.str \o "/run"
            /\ c.request.body = [json |-> [exchange_id |-> c.args.exchange_id]]

\* C14: start_bot and restart_bot render status 422 as they render every
\* other status outside 200..299 but 404: the text is "Error starting bot: "
\* (or "Error restarting bot: ") followed by the error's message, and nothing
\* in it is particular to 422.
C14_Generic422 ==
    \A i \in DOMAIN calls :
        LET c == calls[i]
            prefix == IF c.tool = "start_bot" THEN "Error starting bot: "
                      ELSE "Error restarting bot: "
        IN  (c.tool \in {"start_bot", "restart_bot"} /\ Answered(c)
                /\ c.net.status \in {300, 422, 500}) =>
                /\ c.outcome.error.status = c.net.status
                /\ c.result = [k |-> "text", via |-> "generic",
                               text |-> prefix \o c.outcome.error.message]

C14_Witness ==
    \E i \in DOMAIN calls :
        /\ Answered(calls[i])
        /\ calls[i].tool = "restart_bot"
        /\ calls[i].net.status = 422
        /\ calls[i].result.text =
              "Error restarting bot: API request failed: 422 Unprocessable Entity. {\"message\":\"Bot is already running\"}"

\* ---- the figures of the trade reports

\* an invocation of tool t that ended with the report of a 200 response
Reported(c, t) ==
    /\ c.tool = t
    /\ Answered(c)
    /\ c.net.status = 200
    /\ c.result.k = "text"
    /\ c.result.via = "success"

\* A figure in units of 1/100000 written digit by digit: "+" when it is zero
\* or more and "-" otherwise, the whole part, a point, four decimals.
Figure(x) ==
    LET r == ((IF x < 0 THEN 0 - x ELSE x) + 5) \div 10 IN
    (IF x >= 0 THEN "+" ELSE "-") \o ToString(r \div 10000) \o "."
        \o ToString((r \div 1000) % 10) \o ToString((r \div 100) % 10)
        \o ToString((r \div 10) % 10) \o ToString(r % 10)

\* the figure of a trade's closed_pnl, null counting as zero
ClosedFigure(trade) ==
    IF trade.closed_pnl = Null THEN Figure(0) ELSE Figure(trade.closed_pnl.dec)

\* the records of stats whose key is k, and the sum of f over them
RecordsUnder(stats, k) ==
    {i \in 1..Len(stats.records) :
        PeriodKey(stats.period, stats.records[i]) = k}

RECURSIVE SumOver(_, _)
SumOver(I, f) ==
    IF I = {} THEN 0
    ELSE LET i == CHOOSE j \in I : TRUE IN f[i] + SumOver(I \ {i}, f)

\* the block of the group under key k: its subtotal line, then one line for
\* each record of the group
ExpectedBlock(stats, k) ==
    LET I == RecordsUnder(stats, k)
        trades == [i \in 1..Len(stats.records) |->
                        stats.records[i].total_trades]
        pnls == [i \in 1..Len(stats.records) |-> stats.records[i].pnl.dec]
        under == SelectSeq([i \in 1..Len(stats.records) |-> i],
                           LAMBDA i : i \in I)
    IN  KeyText(k) \o ": " \o ToString(SumOver(I, trades)) \o " trades, PnL: "
            \o Figure(SumOver(I, pnls))
            \o Join([n \in 1..Len(under) |->
                        "\n    " \o stats.records[under[n]].symbol \o ": "
                            \o ToString(trades[under[n]]) \o " trades, "
                            \o Figure(pnls[under[n]])], "")

\* the report of the statistics with the groups in the order keys
ExpectedStats(p, stats, keys) ==
    StatsReport(p, stats.period,
        [n \in 1..Len(keys) |-> ExpectedBlock(stats, keys[n])],
        Figure(stats.global_pnl.dec))

\* C15: every pnl figure of the trade reports (a trade's closed_pnl in the
\* list and in the detail, each pnl record, each group subtotal, the global
\* pnl) is written with exactly four decimals, with a leading "+" exactly when
\* the value is zero or more and with its minus sign otherwise; a null
\* closed_pnl is written "+0.0000".
C15_PnlFigures ==
    \A i \in DOMAIN calls :
        LET c == calls[i] IN
        /\ Reported(c, "list_trades") =>
              c.result.text =
                 TradesReport(c.params, c.outcome.value.meta,
                    [n \in 1..Len(c.outcome.value.data) |->
                        TradeLine(c.outcome.value.data[n],
                                  ClosedFigure(c.outcome.value.data[n]))])
        /\ Reported(c, "get_trade") =>
              c.result.text = TradeDetails(c.outcome.value.data,
                                  ClosedFigure(c.outcome.value.data))
        /\ Reported(c, "get_pnl_stats") =>
              c.result.text =
                 ExpectedStats(c.params, c.outcome.value.data,
                               GroupKeys(c.outcome.value.data))

C15_Witness ==
    \E i \in DOMAIN calls :
        /\ Reported(calls[i], "list_trades")
        /\ Len(calls[i].outcome.value.data) = 2
        /\ calls[i].outcome.value.data[1].closed_pnl = Null
        /\ calls[i].outcome.value.data[2].closed_pnl = Dec(-2)
        /\ calls[i].result.text =
              "Trades for Exchange 3 (Page 1/1, Total: 2):\n\n- ID: 1 | BTC/USDT | Buy | Qty: 0.5 | PnL: +0.0000 | 2024-01-15T10:00:00Z\n- ID: 2 | BTC/USDT | Buy | Qty: 0.5 | PnL: -0.0000 | 2024-01-15T10:00:00Z\n\nPagination: Showing 1-2 of 2 trades"

\* the keys of the records of stats, each where it is first seen
KeysFirstSeen(stats) ==
    FirstSeen([n \in 1..Len(stats.records) |->
                  PeriodKey(stats.period, stats.records[n])])

\* C16 as stated: the statistics' records are grouped by the key of their
\* period (the date for daily, "<month_name> <year>" for monthly, the year
\* for yearly) and the groups are rendered in the order in which each key is
\* first seen among the records, for every period, yearly included.
C16_GroupsInFirstSeenOrder ==
    \A i \in DOMAIN calls :
        Reported(calls[i], "get_pnl_stats") =>
            calls[i].result.text =
                ExpectedStats(calls[i].params, calls[i].outcome.value.data,
                              KeysFirstSeen(calls[i].outcome.value.data))

\* C17: in the statistics report each group's subtotal line shows the sum of
\* total_trades and the sum of pnl over exactly the records of that group
\* (every record counts in one group and no other), each record of the group
\* is listed beneath it with its symbol, count and pnl, and the report ends
\* with "Global PnL (All Time): " and the figure of the response's global_pnl,
\* whatever the records sum to.
C17_SubtotalsAndGlobal ==
    \A i \in DOMAIN calls :
        LET c == calls[i] IN
        Reported(c, "get_pnl_stats") =>
            LET stats == c.outcome.value.data
                keys == GroupKeys(stats)
            IN  /\ \A n \in 1..Len(stats.records) :
                      Cardinality({g \in 1..Len(keys) :
                          n \in RecordsUnder(stats, keys[g])}) = 1
                /\ c.result.text =
                      StatsReport(c.params, stats.period,
                          [g \in 1..Len(keys) |-> ExpectedBlock(stats, keys[g])],
                          Figure(stats.global_pnl.dec))

C17_Witness ==
    \E i \in DOMAIN calls :
        /\ Reported(calls[i], "get_pnl_stats")
        /\ calls[i].outcome.value.data.global_pnl = Dec(-75000)
        /\ Len(calls[i].outcome.value.data.records) = 3
        /\ calls[i].result.text =
              "P&L Statistics for Exchange 3 (daily):\n\n2024-01-15: 5 trades, PnL: +0.4846\n    BTCUSDT: 3 trades, +1.2346\n    ETHUSDT: 2 trades, -0.7500\n\n2024-01-16: 1 trades, PnL: -0.0000\n    BTCUSDT: 1 trades, -0.0000\n\nGlobal PnL (All Time): -0.7500"

\* ---- the symbols of the bot parameters

\* where the symbols of vendor v stand in the input, from first to last
PlacesOf(symbols, v) ==
    Ascending({n \in 1..Len(symbols) : symbols[n].exchange = v})

\* the vendors, ordered by the place of their first symbol
VendorsByFirstPlace(symbols) ==
    LET firsts == Ascending({PlacesOf(symbols, symbols[n].exchange)[1] :
                                n \in 1..Len(symbols)})
    IN  [g \in 1..Len(firsts) |-> symbols[firsts[g]].exchange]

\* the block of vendor v: its name, its first ten symbols at most, and the
\* count of the others when there are others
ExpectedSymbols(symbols, v) ==
    LET places == PlacesOf(symbols, v)
        n == Len(places)
    IN  "  " \o v \o ":\n"
            \o Join([k \in 1..(IF n < 10 THEN n ELSE 10) |->
                        "    - ID: " \o ToString(symbols[places[k]].id) \o ", "
                            \o symbols[places[k]].nice_name], "\n")
            \o (IF n > 10 THEN " ... and " \o ToString(n - 10) \o " more"
                ELSE "")

\* C18: in the bot parameters the symbols are grouped by vendor, the vendors
\* in the order of their first occurrence and the symbols of a vendor in
\* input order; of a vendor's n symbols exactly the first min(n, 10) are
\* listed, and " ... and N more" with N = n - 10 follows exactly when n > 10.
C18_SymbolsByVendor ==
    \A i \in DOMAIN calls :
        LET c == calls[i] IN
        Reported(c, "list_bot_parameters") =>
            LET symbols == c.outcome.value.data.symbols
                vendors == VendorsByFirstPlace(symbols)
            IN  c.result.text =
                   ParametersReport(c.outcome.value.data,
                      Join([g \in 1..Len(vendors) |->
                               ExpectedSymbols(symbols, vendors[g])], "\n"))

C18_Witness ==
    \E i \in DOMAIN calls :
        /\ Reported(calls[i], "list_bot_parameters")
        /\ Len(calls[i].outcome.value.data.symbols) = 15
        /\ \A n \in 1..15 :
              calls[i].outcome.value.data.symbols[n].exchange = "bybit"
        /\ calls[i].result.text =
              ParametersReport(calls[i].outcome.value.data,
                 "  bybit:\n    - ID: 1, SYM1/USDT\n    - ID: 2, SYM2/USDT\n    - ID: 3, SYM3/USDT\n    - ID: 4, SYM4/USDT\n    - ID: 5, SYM5/USDT\n    - ID: 6, SYM6/USDT\n    - ID: 7, SYM7/USDT\n    - ID: 8, SYM8/USDT\n    - ID: 9, SYM9/USDT\n    - ID: 10, SYM10/USDT ... and 5 more")

\* ---- the role legend and the body of a new routine

\* C19: list_roles performs no network call and touches neither the
\* configuration nor the client: whatever the state, the environment values
\* missing included, the invocation ends at once with the same legend
\* (1 = Admin, 2 = User), without a request, and leaves config and client as
\* they were.
C19_RolesStatic ==
    [][\A i \in DOMAIN calls :
          (calls[i].pc = "idle" /\ calls'[i].pc # "idle"
              /\ calls'[i].tool = "list_roles") =>
                /\ calls'[i].pc = "done"
                /\ calls'[i].result =
                      [k |-> "text", via |-> "success",
                       text |-> "Available Roles:\n- Role 1: Admin\n- Role 2: User"]
                /\ calls'[i].fetches = 0
                /\ calls'[i].request = None
                /\ config' = config
                /\ client' = client]_vars

C19_Witness ==
    \E i \in DOMAIN calls :
        /\ calls[i].tool = "list_roles"
        /\ calls[i].pc = "done"
        /\ env.KRIPTTY_API_URL = Undefined
        /\ env.KRIPTTY_API_TOKEN = Undefined
        /\ config = Null
        /\ client = Null
        /\ calls[i].fetches = 0
        /\ calls[i].result.text =
              "Available Roles:\n- Role 1: Admin\n- Role 2: User"

\* C20: create_routine sends POST /routines with a body of exactly user_id,
\* name and action, action being an object of the six input fields grid_mode,
\* grid_id, lm, lwe, sm and swe with the values the caller gave; none of the
\* six stands at the top level of the body.
C20_CreateRoutineBody ==
    \A i \in DOMAIN calls :
        LET c == calls[i] IN
        (c.tool = "create_routine" /\ c.request # None) =>
            /\ c.request.method = "POST"
            /\ c.request.url = client.baseUrl \o "/routines"
            /\ "json" \in DOMAIN c.request.body
            /\ DOMAIN c.request.body.json = {"user_id", "name", "action"}
            /\ c.request.body.json.user_id = c.args.user_id
            /\ c.request.body.json.name = c.args.name
            /\ c.request.body.json.action =
                  [obj |-> [grid_mode |-> c.args.grid_mode,
                            grid_id |-> c.args.grid_id,
                            lm |-> c.args.lm, lwe |-> c.args.lwe,
                            sm |-> c.args.sm, swe |-> c.args.swe]]

C20_Witness ==
    \E i \in DOMAIN calls :
        /\ calls[i].tool = "create_routine"
        /\ calls[i].pc = "awaiting"
        /\ calls[i].request.url = "https://api.test/routines"
        /\ calls[i].request.body =
              [json |-> [user_id |-> [num |-> 7],
                         name |-> [str |-> "Trend Flip"],
                         action |-> [obj |-> [grid_mode |-> [str |-> "static"],
                                              grid_id |-> [num |-> 0],
                                              lm |-> [str |-> "n"],
                                              lwe |-> [num |-> 2],
                                              sm |-> [str |-> "n"],
                                              swe |-> [num |-> 2]]]]]

\* ---- arguments outside the constraints

\* a number outside lo..hi
Outside(v, lo, hi) == ~IsNum(v) \/ v.num < lo \/ Ceiling(v) > hi

\* The arguments a of a call of tool t break a constraint: lwe or swe outside
\* 0..11, leverage outside 1..125 or not whole, a routine's id that has not
\* the shape of a UUID, another id that is not a positive whole number.
BreaksConstraint(t, a) ==
    \/ "lwe" \in DOMAIN a /\ Outside(a.lwe, 0, 11)
    \/ "swe" \in DOMAIN a /\ Outside(a.swe, 0, 11)
    \/ "leverage" \in DOMAIN a
          /\ (Outside(a.leverage, 1, 125) \/ ~IsInt(a.leverage))
    \/ "id" \in DOMAIN a
          /\ IF t \in {"get_routine", "update_routine", "run_routine"}
             THEN ~IsStr(a.id) \/ Len(a.id.str) # UuidLen
             ELSE ~IsInt(a.id) \/ a.id.num < 1

\* C21 as stated: a call whose arguments break a constraint (lwe or swe
\* outside 0..11, leverage outside 1..125 or not a whole number, a routine id
\* without the shape of a UUID, an id that is not a positive whole number) is
\* rejected before its handler runs and issues no request.
C21_InvalidRejected ==
    \A i \in DOMAIN calls :
        (calls[i].pc # "idle"
            /\ BreaksConstraint(calls[i].tool, calls[i].args)) =>
                /\ calls[i].pc = "done"
                /\ calls[i].result = [k |-> "rejected"]
                /\ calls[i].fetches = 0
                /\ calls[i].request = None

\* ---- the bot list

\* C24: in the bot list the running count of the header is the number of
\* listed bots whose is_running flag is true, so it never exceeds the total,
\* and each bot's status reads RUNNING exactly when the server's is_running
\* flag is true, whatever its pid; the flag is displayed as the response
\* gives it.
C24_RunningByFlag ==
    \A i \in DOMAIN calls :
        LET c == calls[i] IN
        Reported(c, "list_bots") =>
            LET bots == c.outcome.value.data
                running == {n \in 1..Len(bots) : bots[n].is_running}
            IN  /\ Cardinality(running) <= Len(bots)
                /\ c.result.text =
                      BotsReport(c.params, Len(bots), Cardinality(running),
                         [n \in 1..Len(bots) |->
                            BotBlock(bots[n],
                               IF n \in running
                               THEN "RUNNING (PID: " \o Show(bots[n].pid)
                                       \o ")"
                               ELSE "STOPPED")])

C24_Witness ==
    \E i \in DOMAIN calls :
        /\ Reported(calls[i], "list_bots")
        /\ calls[i].args = [exchange_id |-> Num(3)]
        /\ calls[i].outcome.value.data =
              <<BotWith(1, FALSE, Num(4242)), BotWith(2, TRUE, Null)>>
        /\ calls[i].result.text =
              "Bots for Exchange 3 (Total: 2, Running: 1):\n\n- ID: 1\n  Name: bot1\n  Status: STOPPED\n  Exchange: Main (okx)\n  Symbol: ID: 11\n  Market Type: futures\n  Grid Mode: Neat\n  Grid: N/A\n  Long Mode: Normal (WE: 1)\n  Short Mode: Graceful Stop (WE: 0)\n  Leverage: 10x\n  Created: 2024-01-01T00:00:00Z\n\n- ID: 2\n  Name: bot2\n  Status: RUNNING (PID: null)\n  Exchange: Main (okx)\n  Symbol: ID: 11\n  Market Type: futures\n  Grid Mode: Neat\n  Grid: N/A\n  Long Mode: Normal (WE: 1)\n  Short Mode: Graceful Stop (WE: 0)\n  Leverage: 10x\n  Created: 2024-01-01T00:00:00Z"

\* ---- the text of a read

\* what the handler of tool t, called with parameters p, makes of the settled
\* fetch net: nothing of the state enters
Rendering(t, p, net) == Resume(t, p, RequestResult(net))

C23_EveryRequestCarriesHeaders ==
    \A i \in DOMAIN calls :
        LET c == calls[i] IN
        c.request # None =>
            /\ c.request.method = Method(c.tool)
            /\ c.request.headers =
                  [Authorization |-> "Bearer " \o config.apiToken,
                   Accept |-> "application/json",
                   ContentType |-> "application/json"]
            /\ \E stem \in {"https://api.test"} :
                  /\ config.apiUrl \in {stem, stem \o "/"}
                  /\ c.request.url = stem \o Endpoint(c.tool, c.params)

C23_Witness ==
    \E i \in DOMAIN calls :
        /\ calls[i].pc = "awaiting"
        /\ calls[i].tool = "stop_bot"
        /\ config.apiUrl = "https://api.test/"
        /\ calls[i].request =
              [url |-> "https://api.test/bots/999/stop", method |-> "POST",
               headers |-> [Authorization |-> "Bearer secret-token",
                            Accept |-> "application/json",
                            ContentType |-> "application/json"],
               body |-> NoBody]

\* ---- a failed initialization

\* the invocation ended by raising the error of a missing environment value
RaisedMissingEnv(c) ==
    /\ c.pc = "done"
    /\ \E name \in {"KRIPTTY_API_URL", "KRIPTTY_API_TOKEN"} :
          c.result = [k |-> "raised", error |-> MissingEnvError(name)]

\* C25: a failed initialization is not remembered.  When an invocation has
\* raised because an environment value is missing, configuration and client
\* are still null; and whenever a tool that needs the client is invoked with
\* both still null and both values present (after such a failure too), the
\* configuration is loaded from those values, the client is constructed and
\* the request is issued.
C25_FailureNotRemembered ==
    /\ [](\A i \in DOMAIN calls :
            RaisedMissingEnv(calls[i]) => (config = Null /\ client = Null))
    /\ [][\A i \in DOMAIN calls :
            (calls[i].pc = "idle" /\ calls'[i].pc # "idle"
                /\ config = Null /\ client = Null /\ EnvComplete
                /\ calls'[i].tool # "list_roles"
                /\ calls'[i].result # [k |-> "rejected"]) =>
                  /\ calls'[i].pc = "awaiting"
                  /\ calls'[i].fetches = 1
                  /\ config' = [apiUrl |-> env.KRIPTTY_API_URL.str,
                                apiToken |-> env.KRIPTTY_API_TOKEN.str]
                  /\ client' # Null
                  /\ client'.token = env.KRIPTTY_API_TOKEN.str
                  /\ calls'[i].request.headers.Authorization =
                        "Bearer " \o env.KRIPTTY_API_TOKEN.str]_vars

C25_Witness ==
    \E i \in DOMAIN calls :
        /\ calls[i].tool = "list_users"
        /\ calls[i].result =
              [k |-> "raised",
               error |-> MissingEnvError("KRIPTTY_API_TOKEN")]
        /\ env.KRIPTTY_API_URL = Str("https://api.test")
        /\ env.KRIPTTY_API_TOKEN = Undefined
        /\ config = Null
        /\ client = Null

\* ---- the local check of the bot list

\* C26: in list_bots the check of the filters comes before the client is
\* obtained: called with neither user_id nor exchange_id, the handler returns
\* its validation text at once, the configuration is not loaded, the client
\* is not constructed and nothing is raised, whether the environment values
\* are there or not.
C26_FilterCheckFirst ==
    [][\A i \in DOMAIN calls :
          (calls[i].pc = "idle" /\ calls'[i].pc # "idle"
              /\ calls'[i].tool = "list_bots"
              /\ "user_id" \notin DOMAIN calls'[i].args
              /\ "exchange_id" \notin DOMAIN calls'[i].args) =>
                /\ calls'[i].pc = "done"
                /\ calls'[i].result =
                      [k |-> "text", via |-> "local",
                       text |-> "Error: Either user_id or exchange_id is required."]
                /\ calls'[i].fetches = 0
                /\ calls'[i].request = None
                /\ config' = config
                /\ client' = client]_vars

C26_Witness ==
    \E i \in DOMAIN calls :
        /\ calls[i].tool = "list_bots"
        /\ calls[i].pc = "done"
        /\ calls[i].args = NoArgs
        /\ calls[i].result.k = "text"
        /\ calls[i].result.text =
              "Error: Either user_id or exchange_id is required."
        /\ env.KRIPTTY_API_URL = Undefined
        /\ env.KRIPTTY_API_TOKEN = Undefined
        /\ config = Null
        /\ client = Null

\* ---- status 404 where no entity is addressed

\* the operations that address no entity by its id
Unaddressed ==
    {"list_users", "list_routines", "list_exchanges", "list_bots",
     "list_trades", "list_trade_symbols", "list_routine_parameters",
     "list_exchange_parameters", "list_bot_parameters", "get_pnl_stats",
     "create_user", "create_routine", "create_exchange", "create_bot"}

\* C27: for the operations that address no entity by its id (the lists, the
\* parameters, the statistics and the creations) a response with status 404
\* is rendered as the generic text "Error <doing>: <message>" with the
\* message of the structured error, and not as a "... not found." text.
C27_Generic404 ==
    \A i \in DOMAIN calls :
        LET c == calls[i] IN
        (c.tool \in Unaddressed /\ Answered(c) /\ c.net.status = 404) =>
            /\ c.outcome.error = StructuredErrorOf(c.net)
            /\ c.result =
                  [k |-> "text", via |-> "generic",
                   text |-> "Error " \o Doing(c.tool) \o ": "
                               \o c.outcome.error.message]

C27_Witness ==
    \E i \in DOMAIN calls :
        /\ calls[i].tool = "create_exchange"
        /\ Answered(calls[i])
        /\ calls[i].net.status = 404
        /\ calls[i].result.text =
              "Error creating exchange: API request failed: 404 Not Found. {\"message\":\"Not found\"}"

\* ---- secrets

Secrets == {"password", "api_key", "api_secret", "api_frase"}

\* the parameters p with every secret replaced by the same text
Scrubbed(p) ==
    [f \in DOMAIN p |-> IF f \in Secrets THEN Str("(secret)") ELSE p[f]]

\* C28: secret inputs never reach the success text: the text create_user and
\* update_user_password return on success is the same whatever the password
\* is, and the text of create_exchange and update_exchange is the same
\* whatever api_key, api_secret and api_frase are, the response being the
\* same: it is the text the handler renders from the parameters with their
\* secrets replaced.
C28_SecretsNotInText ==
    \A i \in DOMAIN calls :
        LET c == calls[i] IN
        (c.tool \in {"create_user", "update_user_password",
                     "create_exchange", "update_exchange"}
            /\ Answered(c) /\ c.outcome.k = "value" /\ c.result.k = "text"
            /\ c.result.via = "success") =>
                /\ DOMAIN c.params \cap Secrets # {}
                /\ c.result =
                      RenderSuccess(c.tool, Scrubbed(c.params),
                                    c.outcome.value)

C28_Witness ==
    \E i \in DOMAIN calls :
        /\ calls[i].tool = "create_exchange"
        /\ Answered(calls[i])
        /\ calls[i].params.api_key = Str("key2")
        /\ calls[i].params.api_secret = Str("sec2")
        /\ calls[i].params.api_frase = Str("frase2")
        /\ calls[i].result.k = "text"
        /\ calls[i].result.text =
              "Exchange created successfully:\n- ID: 7\n- Name: Main\n- Exchange: okx\n- API Error: No (connectivity OK)\n- USDT Balance: 1500.25"

\* ---- an update without fields

\* C29: update_routine, update_exchange and update_bot called with the id
\* alone are not rejected locally: the invocation issues exactly one request,
\* a PATCH to the entity's address, whose body is the empty object.
C29_EmptyUpdateStillSent ==
    \A i \in DOMAIN calls :
        LET c == calls[i] IN
        (c.pc # "idle"
            /\ c.tool \in {"update_routine", "update_exchange", "update_bot"}
            /\ DOMAIN c.args = {"id"}) =>
                /\ c.result # [k |-> "rejected"]
                /\ c.fetches = 1
                /\ c.request.method = "PATCH"
                /\ c.request.url =
                      "https://api.test"
                        \o (CASE c.tool = "update_routine" -> "/routines/"
                              [] c.tool = "update_exchange" -> "/exchanges/"
                              [] c.tool = "update_bot" -> "/bots/")
                        \o Show(c.args.id)
                /\ "json" \in DOMAIN c.request.body
                /\ DOMAIN c.request.body.json = {}
                /\ (c.pc = "done" => c.net # None)

C29_Witness ==
    \E i \in DOMAIN calls :
        /\ calls[i].tool = "update_routine"
        /\ calls[i].args = [id |-> RoutineUuid]
        /\ calls[i].pc = "awaiting"
        /\ calls[i].fetches = 1
        /\ calls[i].request.method = "PATCH"
        /\ calls[i].request.url =
              "https://api.test/routines/123e4567-e89b-12d3-a456-426614174000"
        /\ DOMAIN calls[i].request.body.json = {}

\* ---- the groups of the statistics

\* the key the period calls for, the year when the record lacks that field,
\* the empty key when it lacks the year too
KeyCalledFor(period, r) ==
    IF period = "daily" /\ r.date # Undefined THEN [text |-> r.date.str]
    ELSE IF period = "monthly" /\ r.month_name # Undefined
    THEN [text |-> r.month_name.str \o " " \o ToString(r.year.num)]
    ELSE IF r.year # Undefined THEN [index |-> r.year.num]
    ELSE [text |-> ""]

\* C30: the grouping of the statistics is a partition of the response's
\* records: every record stands in exactly one rendered group, the one of
\* the key its period calls for (its year when it lacks that field, the empty
\* key when it lacks the year too); no record is dropped or doubled; and the
\* trade counts of the groups' subtotal lines add up to the total_trades of
\* all records.
C30_GroupsPartitionRecords ==
    \A i \in DOMAIN calls :
        LET c == calls[i] IN
        Reported(c, "get_pnl_stats") =>
            LET stats == c.outcome.value.data
                all == 1..Len(stats.records)
                keys == GroupKeys(stats)
                groups == [g \in 1..Len(keys) |->
                             GroupOf(stats.period, stats.records, keys[g])]
                under == [g \in 1..Len(keys) |->
                            {n \in all : KeyCalledFor(stats.period,
                                            stats.records[n]) = keys[g]}]
            IN  /\ \A g, h \in 1..Len(keys) : keys[g] = keys[h] => g = h
                /\ \A n \in all :
                      Cardinality({g \in 1..Len(keys) : n \in under[g]}) = 1
                /\ \A g \in 1..Len(keys) :
                      groups[g] =
                         [m \in 1..Cardinality(under[g]) |->
                            stats.records[Ascending(under[g])[m]]]
                /\ SumOf([g \in 1..Len(keys) |-> Len(groups[g])])
                      = Len(stats.records)
                /\ SumOf([g \in 1..Len(keys) |->
                            SumOf([m \in 1..Len(groups[g]) |->
                                     groups[g][m].total_trades])])
                      = SumOf([n \in all |-> stats.records[n].total_trades])
                /\ c.result.text =
                      StatsReport(c.params, stats.period,
                         [g \in 1..Len(keys) |->
                            FormattedGroup(keys[g], groups[g])],
                         PnlStr(ParseFloat(stats.global_pnl)))

C30_Witness ==
    \E i \in DOMAIN calls :
        /\ Reported(calls[i], "get_pnl_stats")
        /\ calls[i].outcome.value.data.period = "daily"
        /\ calls[i].outcome.value.data.global_pnl = Dec(123456)
        /\ Len(calls[i].outcome.value.data.records) = 3
        /\ calls[i].result.text =
              "P&L Statistics for Exchange 3 (daily):\n\n2024: 6 trades, PnL: +0.0000\n    SOLUSDT: 6 trades, +0.0000\n\n: 8 trades, PnL: +0.0000\n    XRPUSDT: 8 trades, +0.0000\n\n2024-01-15: 3 trades, PnL: +1.2346\n    BTCUSDT: 3 trades, +1.2346\n\nGlobal PnL (All Time): +1.2346"

====
